---- MODULE Spec2Model ----
(***************************************************************************)
(* Model of the storyteller pipeline execution engine:                     *)
(*   - the stage registry (StorytellerStageManager),                       *)
(*   - the progress state (StorytellerProgressTracker),                    *)
(*   - the format plugins (json, text, list, subtext),                     *)
(*   - the content processor (validate -> repair -> retry -> fail),        *)
(*   - the phase executor, the pipeline coordinator and the batch loop.    *)
(*                                                                         *)
(* Strings of the program are modelled by what the plugins can tell about  *)
(* them: a model response is Raw(kind), a normalised content is            *)
(* Processed(kind), a prepared prompt is a "prompt" record naming its      *)
(* phase and the output it quotes.  Optional values (None or a value) are  *)
(* sequences of length 0 or 1.  Temperatures are in tenths (7 is 0.7).     *)
(***************************************************************************)
EXTENDS Integers, Sequences, FiniteSets, TLC

\* ------------------------------------------------------------------ bounds
\* Largest value of content_processing.default_max_retries that is explored.
MaxRetriesBound == 2
\* Value of batch.size (number of pipeline runs of one batch) that is explored.
MaxBatchSize == 2

\* ------------------------------------------------------- program constants
\* temperature=0.2 of the repair call
RepairTemperature == 2
\* llm.default_temperature when the configuration does not set it (1.0)
DefaultTemperature == 10

\* --------------------------------------------------------------- contents
None == << >>
Some(x) == << x >>

\* What a model response can be, as far as the plugins can tell:
\*   valid     well-formed payload that satisfies the effective schema
\*   wrapped   a valid payload between the plugin's start/end tags
\*   invalid   well-formed payload that does not satisfy the schema
\*   malformed payload that does not parse
\*   empty     the empty string
RawKinds == {"valid", "wrapped", "invalid", "malformed", "empty"}
\* The adapter either returns a response or raises RuntimeError.
LLMOutcomes == RawKinds \cup {"error"}

Raw(k) == [tag |-> "raw", kind |-> k]
Processed(k) == [tag |-> "processed", kind |-> k]

Plugins == {"json", "text", "list", "subtext"}

\* ---------------------------------------------------------- configuration
\* the configuration (pipeline and plugin sections), fixed at construction
VARIABLE config

\* -------------------------------------------------------- stage registry
\* pipeline configuration: the stages as configured (get_stage_config)
ConfiguredStages ==
  << [name |-> "S1", order |-> 1, enabled |-> TRUE,
      phases |-> << [name |-> "A", plugin |-> "json", schema |-> Some("schemaA"),
                     temperature |-> Some(7), ref |-> None],
                    [name |-> "B", plugin |-> "json", schema |-> None,
                     temperature |-> None, ref |-> Some(<<"S1", "A">>)] >>],
     [name |-> "SX", order |-> 2, enabled |-> FALSE,
      phases |-> << [name |-> "X", plugin |-> "subtext", schema |-> None,
                     temperature |-> None, ref |-> None] >>],
     [name |-> "S2", order |-> 3, enabled |-> TRUE,
      phases |-> << [name |-> "C", plugin |-> "list", schema |-> None,
                     temperature |-> Some(3), ref |-> Some(<<"S1", "B">>)],
                    [name |-> "D", plugin |-> "text", schema |-> None,
                     temperature |-> None, ref |-> None] >>] >>

IsEnabled(stage) == stage.enabled

\* StorytellerStageManager._load_enabled_stages: the enabled stages of the
\* configuration, in their configured order
stages == SelectSeq(config.stages, IsEnabled)

StageNames == {stages[i].name : i \in 1..Len(stages)}

\* StorytellerStageManager.is_valid_stage
is_valid_stage(stage_name) == stage_name \in StageNames

\* StorytellerStageManager.get_stage_index_by_name (0-based, as in the code)
get_stage_index_by_name(stage_name) ==
  CHOOSE i \in 0..(Len(stages) - 1) : stages[i + 1].name = stage_name

\* StorytellerStageManager.get_phase_index_by_name (0-based)
get_phase_index_by_name(stage_name, phase_name) ==
  LET st == stages[get_stage_index_by_name(stage_name) + 1]
  IN CHOOSE j \in 0..(Len(st.phases) - 1) : st.phases[j + 1].name = phase_name

\* StorytellerStageManager.get_phase
get_phase(stage_index, phase_index) == stages[stage_index + 1].phases[phase_index + 1]

\* how a lookup ends: it returns a value (None included) or raises
Returned(value) == [error |-> "none", value |-> value]
Raised(error) == [error |-> error, value |-> None]

\* a get_stage that raises for an index out of range
get_stage_raising(stage_index) ==
  IF 0 <= stage_index /\ stage_index < Len(stages)
  THEN Returned(Some(stages[stage_index + 1]))
  ELSE Raised("IndexError")

\* StorytellerStageManager.get_stage: the stage, or None out of range
get_stage(stage_index) ==
  IF 0 <= stage_index /\ stage_index < Len(stages)
  THEN Returned(Some(stages[stage_index + 1]))
  ELSE Returned(None)

\* StorytellerStageManager.get_phase called with any two integers: the phase,
\* or IndexError for a stage index or a phase index out of range
get_phase_call(stage_index, phase_index) ==
  IF 0 <= stage_index /\ stage_index < Len(stages)
  THEN IF 0 <= phase_index /\ phase_index < Len(stages[stage_index + 1].phases)
       THEN Returned(Some(get_phase(stage_index, phase_index)))
       ELSE Raised("IndexError")
  ELSE Raised("IndexError")

\* StorytellerStageManager.get_stage_index_by_name called with any name: the
\* KeyError of stage_name_to_index becomes ValueError
get_stage_index_by_name_call(stage_name) ==
  IF stage_name \in StageNames
  THEN Returned(Some(get_stage_index_by_name(stage_name)))
  ELSE Raised("ValueError")

\* StorytellerStageManager.get_phase_index_by_name called with any names: the
\* KeyError of phase_name_to_index, for the stage or for the phase, becomes
\* ValueError
get_phase_index_by_name_call(stage_name, phase_name) ==
  IF stage_name \in StageNames
  THEN LET st == stages[get_stage_index_by_name(stage_name) + 1]
       IN IF \E j \in 1..Len(st.phases) : st.phases[j].name = phase_name
          THEN Returned(Some(get_phase_index_by_name(stage_name, phase_name)))
          ELSE Raised("ValueError")
  ELSE Raised("ValueError")

\* StorytellerStageManager.get_stage_by_name: the stage, or None for a name
\* that stage_name_to_index does not hold (the KeyError is caught)
get_stage_by_name(stage_name) ==
  IF stage_name \in StageNames
  THEN Returned(Some(stages[get_stage_index_by_name(stage_name) + 1]))
  ELSE Returned(None)

PhaseNamesOf(stage_name) ==
  LET st == stages[get_stage_index_by_name(stage_name) + 1]
  IN {st.phases[j].name : j \in 1..Len(st.phases)}

\* every (stage, phase) of the registry, in execution order
RunOrder ==
  LET RECURSIVE Flat(_)
      Flat(i) == IF i > Len(stages) THEN << >>
                 ELSE [j \in 1..Len(stages[i].phases) |->
                          <<stages[i].name, stages[i].phases[j].name>>] \o Flat(i + 1)
  IN Flat(1)

PhaseKeys == {RunOrder[i] : i \in 1..Len(RunOrder)}

\* position of a phase in the execution order
OrderOf(key) == CHOOSE i \in 1..Len(RunOrder) : RunOrder[i] = key

\* StorytellerStageManager.get_phase_temperature: the phase's explicit
\* temperature, else the global default
get_phase_temperature(stage_index, phase_index, default_temperature) ==
  LET phase == get_phase(stage_index, phase_index)
  IN IF phase.temperature # None THEN phase.temperature[1] ELSE default_temperature

\* StorytellerStageManager.get_phase_schema: (found, schema)
get_phase_schema(stage_name, phase_name) ==
  LET phase == get_phase(get_stage_index_by_name(stage_name),
                         get_phase_index_by_name(stage_name, phase_name))
  IN phase.schema

\* StorytellerGeminiGenerator._prepare_generation_config: the temperature a
\* generation call runs at, given the temperature argument (None or a value)
EffectiveTemperature(temperature, default_temperature) ==
  IF temperature # None THEN temperature[1] ELSE default_temperature

\* ---------------------------------------------------------------- plugins
\* a JSON document one of whose strings holds, with an escaped character
\* (\u0025 for %), the json plugin's start tag, a JSON payload and its end
\* tag: the text has no tag in it, the decoded string has both
EmbeddingKind == "embedding"

\* json.loads succeeds on the content
Parses(content) == content.kind \in {"valid", "invalid", EmbeddingKind}

\* <plugin>.extract_content: the payload between the first start tag and the
\* first end tag; without tags the content itself (the text plugin only
\* strips blanks).  json.dumps writes the decoded strings, so what the json
\* plugin made of an embedding document shows the two tags around a payload.
extract_content(plugin, content) ==
  IF plugin \in {"json", "list", "subtext"} /\ content.tag = "raw" /\ content.kind = "wrapped"
  THEN Raw("valid")
  ELSE IF plugin = "json" /\ content = Processed(EmbeddingKind)
       THEN Raw("valid")
       ELSE content

\* <plugin>.process: [ok, content]; ok = FALSE is the ValueError of a
\* malformed content (only the json plugin raises it)
process(plugin, content) ==
  LET extracted == extract_content(plugin, content)
  IN IF plugin = "json" /\ ~Parses(extracted)
     THEN [ok |-> FALSE, content |-> content]
     ELSE [ok |-> TRUE, content |-> Processed(extracted.kind)]

\* StorytellerOutputPlugin.process_wrapper: extract_content, then process
process_wrapper(plugin, content) == process(plugin, extract_content(plugin, content))

\* a validate_content that skips the schema check: whatever parses is valid
validate_content_lenient(plugin, content, schema) ==
  CASE plugin = "json" ->
         IF schema = None \/ Parses(content) THEN "true" ELSE "false"
    [] plugin = "text" -> "ValueError"
    [] OTHER -> "true"

\* <plugin>.validate_content: "true", "false" or "ValueError"
\*   json    no schema: true; else the content parses and satisfies the schema
\*   text    raises: parsed_schema is computed in __init__, before the schema
\*           is loaded, and never again
\*   list    true for every string
\*   subtext true
validate_content(plugin, content, schema) ==
  CASE plugin = "json" ->
         IF schema = None THEN "true"
         ELSE IF Parses(content) /\ content.kind = "valid" THEN "true" ELSE "false"
    [] plugin = "text" -> "ValueError"
    [] OTHER -> "true"

\* <plugin>.serialize: TRUE when it returns, FALSE when it raises ValueError
\* (the json plugin re-parses a string)
serialize(plugin, content) == plugin # "json" \/ Parses(content)

\* a get_current_schema that knows the plugin's default schema only
get_current_schema_default_only(plugin_configs, plugin, stage_name, phase_name) ==
  plugin_configs[plugin].default_schema

\* StorytellerOutputPlugin.get_current_schema: the phase's schema, else the
\* plugin's default schema
get_current_schema(plugin_configs, plugin, stage_name, phase_name) ==
  IF get_phase_schema(stage_name, phase_name) # None
  THEN get_phase_schema(stage_name, phase_name)
  ELSE plugin_configs[plugin].default_schema

\* StorytellerOutputPlugin.validate: validate_content, and an invalid content
\* is serialized and saved to ephemeral storage (_save_invalid_content).
\* save_ok is whether that save succeeds.  Result: "true", "false",
\* "ValueError" (from validate_content or serialize) or "StorageError".
validate(plugin_configs, plugin, content, stage_name, phase_name, save_ok) ==
  LET schema == get_current_schema(plugin_configs, plugin, stage_name, phase_name)
      is_valid == validate_content(plugin, content, schema)
  IN IF is_valid # "false" THEN is_valid
     ELSE IF ~serialize(plugin, content) THEN "ValueError"
     ELSE IF ~save_ok THEN "StorageError"
     ELSE "false"

\* whether validate() wrote the invalid content to ephemeral storage
SavesInvalid(plugin_configs, plugin, content, stage_name, phase_name, save_ok) ==
  validate(plugin_configs, plugin, content, stage_name, phase_name, save_ok) = "false"

\* StorytellerPluginManager.get_plugin_repair_setting
get_plugin_repair_setting(plugin_configs, plugin) == plugin_configs[plugin].repair

\* StorytellerPluginManager.get_plugin_retry_setting
get_plugin_retry_setting(plugin_configs, plugin) == plugin_configs[plugin].retry

\* StorytellerContentProcessor.get_schema: the phase schema takes precedence
\* over the plugin's default schema
get_schema(plugin_configs, plugin, stage_name, phase_name) ==
  IF get_phase_schema(stage_name, phase_name) # None
  THEN get_phase_schema(stage_name, phase_name)
  ELSE plugin_configs[plugin].default_schema

\* --------------------------------------------------------------- storage
\* <tier>.save_content: the file {stage}_{phase}_{identifier} is replaced
save_content(store, stage_name, phase_name, identifier, content) ==
  {f \in store : ~(f.stage = stage_name /\ f.phase = phase_name /\ f.identifier = identifier)}
    \cup {[stage |-> stage_name, phase |-> phase_name, identifier |-> identifier,
           content |-> content]}

\* StorytellerStorageManager.create_content_packet
create_content_packet(content, stage_name, phase_name, plugin_name, identifier, prompt) ==
  [content |-> content, stage_name |-> stage_name, phase_name |-> phase_name,
   plugin_name |-> plugin_name, identifier |-> identifier, prompt |-> prompt]

NoPacket == [content |-> [tag |-> "none"], stage_name |-> "", phase_name |-> "",
             plugin_name |-> "", identifier |-> "", prompt |-> [tag |-> "none"]]

\* ------------------------------------------------------- progress tracker
\* the empty dictionary
EmptyDict == << >>

\* whether story_data holds an entry for (stage, phase)
HasEntry(sd, stage_name, phase_name) ==
  stage_name \in DOMAIN sd /\ phase_name \in DOMAIN sd[stage_name]

\* the (stage, phase) keys of story_data
Entries(sd) == {k \in PhaseKeys : HasEntry(sd, k[1], k[2])}

\* StorytellerProgressTracker.get_story_data: the packet, or None
get_story_data(sd, stage_name, phase_name) ==
  IF HasEntry(sd, stage_name, phase_name) THEN Some(sd[stage_name][phase_name]) ELSE None

\* an update_story_data that validates the names and stores nothing
update_story_data_skipped(sd, stage_name, phase_name, content) ==
  [ok |-> is_valid_stage(stage_name) /\ phase_name \in PhaseNamesOf(stage_name),
   story_data |-> sd]

\* an update_story_data that keeps the content a key already has
update_story_data_keep_first(sd, stage_name, phase_name, content) ==
  IF ~is_valid_stage(stage_name) THEN [ok |-> FALSE, story_data |-> sd]
  ELSE LET sd1 == IF stage_name \in DOMAIN sd THEN sd ELSE (stage_name :> EmptyDict) @@ sd
       IN IF phase_name \notin PhaseNamesOf(stage_name)
          THEN [ok |-> FALSE, story_data |-> sd1]
          ELSE [ok |-> TRUE,
                story_data |-> [sd1 EXCEPT ![stage_name] = @ @@ (phase_name :> content)]]

\* StorytellerProgressTracker.update_story_data: [ok, story_data]; ok = FALSE
\* is the ValueError of an unknown stage or phase name
update_story_data(sd, stage_name, phase_name, content) ==
  IF ~is_valid_stage(stage_name) THEN [ok |-> FALSE, story_data |-> sd]
  ELSE LET sd1 == IF stage_name \in DOMAIN sd THEN sd ELSE (stage_name :> EmptyDict) @@ sd
       IN IF phase_name \notin PhaseNamesOf(stage_name)
          THEN [ok |-> FALSE, story_data |-> sd1]
          ELSE [ok |-> TRUE,
                story_data |-> [sd1 EXCEPT ![stage_name] = (phase_name :> content) @@ @]]

\* a reset that rewinds the cursor and keeps story_data
reset_keeps_story_data(sd) == sd

\* StorytellerProgressTracker.reset: the cleared story_data
reset_story_data(sd) == EmptyDict

\* a reset that clears story_data and leaves the cursor where it is
reset_keeps_cursor(cursor) == cursor

\* StorytellerProgressTracker.reset: the rewound cursor
reset_cursor(cursor) == <<0, 0>>

\* a validation of set_current_progress that looks at the stage index only
set_current_progress_ok_stage_only(si, pi) ==
  si >= 0 /\ si < Len(stages)

\* StorytellerProgressTracker.set_current_progress, its two checks: TRUE
\* when the indices are accepted, FALSE when it raises ValueError
set_current_progress_ok(si, pi) ==
  /\ si >= 0 /\ si < Len(stages)
  /\ pi >= 0 /\ pi < Len(stages[si + 1].phases)

\* the ValueError of set_current_progress, "none" when it raises nothing
set_current_progress_error(si, pi) ==
  IF si < 0 \/ si >= Len(stages) THEN "ValueError: Invalid stage_index"
  ELSE IF pi < 0 \/ pi >= Len(stages[si + 1].phases) THEN "ValueError: Invalid phase_index"
  ELSE "none"

\* a set_current_progress that stores the stage index as soon as it has
\* passed its check, before the phase index is looked at
set_current_progress_stage_first(cursor, si, pi) ==
  [ok |-> set_current_progress_ok(si, pi),
   error |-> set_current_progress_error(si, pi),
   cursor |-> IF set_current_progress_ok(si, pi) THEN <<si, pi>>
              ELSE IF si >= 0 /\ si < Len(stages) THEN <<si, cursor[2]>>
              ELSE cursor]

\* StorytellerProgressTracker.set_current_progress: [ok, error, cursor];
\* ok = FALSE is the ValueError, raised before either field is assigned
set_current_progress(cursor, si, pi) ==
  [ok |-> set_current_progress_ok(si, pi),
   error |-> set_current_progress_error(si, pi),
   cursor |-> IF set_current_progress_ok(si, pi) THEN <<si, pi>> ELSE cursor]

\* a run_stage that never moves the cursor
RunStageProgressStays(cursor, pi, num_phases) ==
  [ok |-> TRUE, error |-> "none", cursor |-> cursor]

\* PipelineCoordinator.run_stage, after execute_phase returned for the phase
\* at loop index pi: the stage index is read from the tracker, and the cursor
\* is moved unless this was the stage's last phase
RunStageProgress(cursor, pi, num_phases) ==
  IF pi + 1 < num_phases THEN set_current_progress(cursor, cursor[1], pi + 1)
  ELSE [ok |-> TRUE, error |-> "none", cursor |-> cursor]

\* a run_pipeline that leaves the cursor where the stage's last phase left it
RunPipelineProgressStays(cursor, si) ==
  [ok |-> TRUE, error |-> "none", cursor |-> cursor]

\* PipelineCoordinator.run_pipeline, after run_stage returned for the stage
\* at loop index si: the cursor is moved if there is a next stage
RunPipelineProgress(cursor, si) ==
  IF si + 1 < Len(stages) THEN set_current_progress(cursor, si + 1, 0)
  ELSE [ok |-> TRUE, error |-> "none", cursor |-> cursor]

\* --------------------------------------------------------- prompt manager
\* StorytellerPromptManager._fetch_output_content through
\* _handle_placeholder_matches: the quoted output, or an error marker when
\* story_data has no entry for it
fetch_output_content(sd, ref) ==
  IF get_story_data(sd, ref[1], ref[2]) # None
  THEN get_story_data(sd, ref[1], ref[2])[1].content
  ELSE [tag |-> "error"]

\* StorytellerPromptManager.prepare_prompt: the phase's template with its
\* output placeholder (if it has one) replaced
prepare_prompt(sd, stage, phase) ==
  [tag |-> "prompt", stage |-> stage.name, phase |-> phase.name,
   quoted |-> IF phase.ref = None THEN None ELSE Some(fetch_output_content(sd, phase.ref[1]))]

\* StorytellerContentProcessor.generate_repair_prompt
generate_repair_prompt(content, plugin, stage_name, phase_name) ==
  [tag |-> "repair_prompt", stage |-> stage_name, phase |-> phase_name,
   plugin |-> plugin, content |-> content]

\* ------------------------------------------------------------------ state
VARIABLES
  pc,                   \* where the batch run is
  batch_runs,           \* iterations of run_batch started so far
  stage_index,          \* loop variable of PipelineCoordinator.run_pipeline
  phase_index,          \* loop variable of PipelineCoordinator.run_stage
  current_stage_index,  \* StorytellerProgressTracker.current_stage_index
  current_phase_index,  \* StorytellerProgressTracker.current_phase_index
  story_data,           \* StorytellerProgressTracker.story_data
  prompt,               \* execute_phase: the prepared prompt
  content_packet,       \* execute_phase: the packet being processed
  retry_count,          \* retry_content_generation: the loop variable
  cp_outcome,           \* how process_content ended for the current phase
  exc,                  \* the exception in flight, or the one that ended the batch
  ephemeral,            \* files of the ephemeral storage
  batch,                \* files of the current batch directory
  llm_calls,            \* the model calls of the current phase execution
  validations,          \* the plugin.validate calls of the current phase execution
  fault,                \* collaborator fault met by the current phase execution
  current_schema,       \* the model adapter's current_schema (None when cleared)
  gather,               \* a process_content_batch call: its tasks and the future of asyncio.gather
  plugin_call,          \* an output plugin's methods called directly: the content and what they returned
  lookup,               \* the last lookup made in the stage registry: its arguments and how it ended
  milestones,           \* per phase of the current run: the steps that succeeded, and "failed"
  batch_storage,        \* StorytellerBatchStorage: its folder pointers, its lock and its directory
  callers,              \* the coroutines calling the batch storage: the method each is in and where
  writer,               \* a StorytellerAtomicFileWriter at work: the target, the temporary file, the step
  ephemeral_storage,    \* StorytellerEphemeralStorage: its lock and the coroutines calling it
  retry_loop            \* a retry_operation call: the attempts made and how it ended

\* the orchestrator, the tracker, the processor and what is called on them
pipeline_vars == <<config, pc, batch_runs, stage_index, phase_index, current_stage_index,
                   current_phase_index, story_data, prompt, content_packet, retry_count,
                   cp_outcome, exc, ephemeral, batch, llm_calls, validations, fault,
                   current_schema, gather, plugin_call, lookup, milestones>>

\* the storage tiers called on their own
storage_vars == <<batch_storage, callers, writer, ephemeral_storage, retry_loop>>

vars == <<pipeline_vars, storage_vars>>

NoPrompt == [tag |-> "none"]

\* the plugin configuration (plugins section): the repair and retry flags and
\* the default schema of the json and text plugins vary
PluginConfigs(repair, retry, json_schema, text_schema) ==
  [p \in Plugins |->
     [repair |-> repair, retry |-> retry,
      default_schema |-> CASE p = "json" -> json_schema
                           [] p = "text" -> text_schema
                           [] OTHER -> None]]

Configs ==
  {[stages |-> ConfiguredStages,
    plugin_configs |-> PluginConfigs(r, t, js, ts),
    max_retries |-> m,
    pass_schema |-> ps,
    loaded_plugins |-> Plugins,
    batch_size |-> MaxBatchSize,
    default_temperature |-> DefaultTemperature] :
      r \in BOOLEAN, t \in BOOLEAN,
      js \in {None, Some("jsonDefault")}, ts \in {None, Some("textDefault")},
      m \in {0, MaxRetriesBound}, ps \in BOOLEAN}

\* no process_content_batch call has been made
NoGather ==
  [call |-> "not_called", tasks |-> << >>, finished |-> << >>,
   future |-> "none", exception |-> "none", results |-> << >>]

NoMilestones == [k \in PhaseKeys |-> {}]

NoLookup == [method |-> "none", args |-> << >>, error |-> "none", value |-> None]

NoPluginCall ==
  [plugin |-> "none", input |-> [tag |-> "none"], outputs |-> << >>,
   schema |-> None, verdict |-> "none"]

\* how many coroutines call a storage tier at the same time
NumCallers == 2

Idle == [op |-> "idle", at |-> "idle", arg |-> "none", path |-> None, result |-> "none"]

\* no coroutine is in a method of the batch storage
NoCallers == [c \in 1..NumCallers |-> Idle]

\* StorytellerBatchStorage.__init__: no folder is selected, the lock is free
\* (lock = 0); dirs and files are what is on disk under storage_path
NewBatchStorage ==
  [current_datetime_folder |-> None, current_batch_run_folder |-> None,
   lock |-> 0, now |-> 1, dirs |-> {}, files |-> {}]

\* the files written in the tier's directory
FileNames == {"f1", "f2"}

\* no atomic writer has been entered: no file and no temporary file is on
\* disk (target 0: absent; target n: the complete content of the n-th save)
NoWriter ==
  [at |-> "none", file |-> "none", version |-> 0, before |-> 0, raised |-> "none",
   result |-> "none", saves |-> 0,
   disk |-> [f \in FileNames |-> [target |-> 0, temp |-> "absent"]]]

\* a coroutine that is in no method of the ephemeral storage
NoTask == [frames |-> << >>, at |-> "idle", size |-> "none", result |-> "none"]

\* StorytellerEphemeralStorage.__init__: the lock is free (0: held by nobody)
NewEphemeralStorage == [lock |-> 0, tasks |-> [t \in 1..NumCallers |-> NoTask]]

\* retry_operation has not been called
NoRetryLoop ==
  [at |-> "none", loop |-> "none", max_retries |-> 0, attempt |-> 0, invocations |-> 0,
   failures |-> 0, delay |-> 0, result |-> "none", error |-> "none"]

\* the orchestrator and its collaborators as constructed, before run_batch
Constructed ==
  /\ pc = "batch_idle"
  /\ batch_runs = 0
  /\ stage_index = 0
  /\ phase_index = 0
  /\ current_stage_index = 0
  /\ current_phase_index = 0
  /\ story_data = EmptyDict
  /\ prompt = NoPrompt
  /\ content_packet = NoPacket
  /\ retry_count = 0
  /\ cp_outcome = "none"
  /\ exc = "none"
  /\ ephemeral = {}
  /\ batch = {}
  /\ llm_calls = << >>
  /\ validations = << >>
  /\ fault = "none"
  /\ current_schema = None
  /\ gather = NoGather
  /\ plugin_call = NoPluginCall
  /\ lookup = NoLookup
  /\ milestones = NoMilestones
  /\ batch_storage = NewBatchStorage
  /\ callers = NoCallers
  /\ writer = NoWriter
  /\ ephemeral_storage = NewEphemeralStorage
  /\ retry_loop = NoRetryLoop

Init ==
  /\ config \in Configs
  /\ Constructed

\* the stage and phase the coordinator is at
CurStage == stages[stage_index + 1]
CurPhase == CurStage.phases[phase_index + 1]
CurKey == <<CurStage.name, CurPhase.name>>

\* ------------------------------------------------------ content processor
\* a retry loop that runs one iteration too many (range(max_retries + 1))
RetryLoopEntersInclusive(max_retries, count) == count <= max_retries

\* retry_content_generation, "for retry_count in range(self.max_retries)":
\* whether the loop has an iteration numbered retry_count
RetryLoopEnters(max_retries, count) == count < max_retries

\* retry_content_generation: the prompt of the regeneration call
RetryPrompt(packet) == packet.content

\* a regeneration at the global default temperature, whatever the phase sets
RetryTemperatureDefault(si, pi, default_temperature) == Some(default_temperature)

\* retry_content_generation: the temperature of the regeneration call
RetryTemperature(si, pi, default_temperature) ==
  Some(get_phase_temperature(si, pi, default_temperature))

\* attempt_repair: the temperature of the repair call
AttemptRepairTemperature == Some(RepairTemperature)

\* execute_phase: the temperature argument of the generation call
GenerateTemperature(phase) == phase.temperature

\* a repair step that is entered again after a failed repair
AfterRepairAgain(plugin_configs, plugin, max_retries) ==
  IF get_plugin_repair_setting(plugin_configs, plugin) THEN "repair"
  ELSE "ContentProcessingError"

\* handle_invalid_content after the repair step: regenerate when the retry
\* flag is set (a loop of zero iterations raises at once), else raise
AfterRepair(plugin_configs, plugin, max_retries) ==
  IF get_plugin_retry_setting(plugin_configs, plugin)
  THEN IF RetryLoopEnters(max_retries, 0) THEN "retry" ELSE "ContentProcessingError"
  ELSE "ContentProcessingError"

\* a dispatch that repairs without looking at the repair flag
HandleInvalidContentUnflagged(plugin_configs, plugin, max_retries) == "repair"

\* handle_invalid_content on entry: repair when the repair flag is set
HandleInvalidContent(plugin_configs, plugin, max_retries) ==
  IF get_plugin_repair_setting(plugin_configs, plugin)
  THEN "repair"
  ELSE AfterRepair(plugin_configs, plugin, max_retries)

\* a retry loop that raises at the first failed iteration
NextRetryGivesUp(max_retries, count) == "ContentProcessingError"

\* retry_content_generation at the end of iteration count: the next
\* iteration, or the error after the loop
NextRetry(max_retries, count) ==
  IF RetryLoopEnters(max_retries, count + 1) THEN "retry" ELSE "ContentProcessingError"

\* continue inside process_content, or leave it with an outcome
Goto(next) ==
  IF next \in {"repair", "retry"}
  THEN pc' = next /\ cp_outcome' = "none"
  ELSE pc' = "processed" /\ cp_outcome' = next

FaultOf(next) ==
  CASE next = "StorageError" -> "storage"
    [] next = "RuntimeError" -> "llm"
    [] OTHER -> fault

LogCall(purpose, p, temperature, result) ==
  llm_calls' = Append(llm_calls, [purpose |-> purpose, prompt |-> p,
                                  temperature |-> temperature, result |-> result])

Reach(key, step) == milestones' = [milestones EXCEPT ![key] = @ \cup {step}]

PlugCfg == config.plugin_configs

\* plugin.validate as called by the processor on the current phase
Validate(plugin, content, save_ok) ==
  validate(PlugCfg, plugin, content, CurStage.name, CurPhase.name, save_ok)

\* the schema plugin.validate resolves for the current phase and hands to
\* validate_content
ValidateSchema(plugin) == get_current_schema(PlugCfg, plugin, CurStage.name, CurPhase.name)

\* the ephemeral storage after plugin.validate (it saves an invalid content)
AfterValidate(plugin, content, save_ok) ==
  IF SavesInvalid(PlugCfg, plugin, content, CurStage.name, CurPhase.name, save_ok)
  THEN save_content(ephemeral, CurStage.name, CurPhase.name, "invalid", content)
  ELSE ephemeral

\* the ephemeral storage after the packet's content is saved
AfterSave(store, packet, content) ==
  save_content(store, packet.stage_name, packet.phase_name, packet.identifier, content)

\* ---------------------------------------------------------------- actions
\* run_batch, one iteration up to the coordinator's loop: start_batch,
\* start_new_batch (a new batch directory, the ephemeral storage cleared),
\* orchestrator.run_pipeline (create_batch_run, progress_tracker.reset())
StartBatchRun ==
  /\ pc = "batch_idle"
  /\ batch_runs < config.batch_size
  /\ batch_runs' = batch_runs + 1
  /\ ephemeral' = {}
  /\ batch' = {}
  /\ current_stage_index' = reset_cursor(<<current_stage_index, current_phase_index>>)[1]
  /\ current_phase_index' = reset_cursor(<<current_stage_index, current_phase_index>>)[2]
  /\ story_data' = reset_story_data(story_data)
  /\ milestones' = NoMilestones
  /\ stage_index' = 0
  /\ phase_index' = 0
  /\ pc' = "run_pipeline"
  /\ exc' = "none"
  /\ UNCHANGED <<config, storage_vars, plugin_call, lookup, current_schema, gather, prompt, content_packet, retry_count, cp_outcome, llm_calls,
                 validations, fault>>

\* run_batch: the loop is over
FinishBatch ==
  /\ pc = "batch_idle"
  /\ batch_runs = config.batch_size
  /\ pc' = "batch_done"
  /\ UNCHANGED <<config, storage_vars, plugin_call, lookup, current_schema, gather, batch_runs, stage_index, phase_index, current_stage_index,
                 current_phase_index, story_data, prompt, content_packet, retry_count,
                 cp_outcome, exc, ephemeral, batch, llm_calls, validations, fault,
                 milestones>>

\* PipelineCoordinator.run_pipeline: the next stage of the loop is entered
RunPipelineStage ==
  /\ pc = "run_pipeline"
  /\ stage_index < Len(stages)
  /\ phase_index' = 0
  /\ pc' = "run_stage"
  /\ UNCHANGED <<config, storage_vars, plugin_call, lookup, current_schema, gather, batch_runs, stage_index, current_stage_index,
                 current_phase_index, story_data, prompt, content_packet, retry_count,
                 cp_outcome, exc, ephemeral, batch, llm_calls, validations, fault,
                 milestones>>

\* PipelineCoordinator.run_pipeline returns after its last stage; run_batch
\* ends the batch run
RunPipelineComplete ==
  /\ pc = "run_pipeline"
  /\ stage_index = Len(stages)
  /\ pc' = "batch_idle"
  /\ UNCHANGED <<config, storage_vars, plugin_call, lookup, current_schema, gather, batch_runs, stage_index, phase_index, current_stage_index,
                 current_phase_index, story_data, prompt, content_packet, retry_count,
                 cp_outcome, exc, ephemeral, batch, llm_calls, validations, fault,
                 milestones>>

\* StorytellerPluginManager.get_plugin: the plugin is returned ("found"), or
\* PluginError is raised for a name that is not a loaded plugin
get_plugin(loaded_plugins, plugin_name) ==
  IF plugin_name \in loaded_plugins THEN "found" ELSE "PluginError"

\* an execute_phase that goes on to the generation call whether or not the
\* prompt packet was saved
AfterPromptSaveIgnored(save_ok) == "generate"

\* PhaseExecutor.execute_phase, "await save_ephemeral_content(prompt_packet)":
\* the generation call is reached only if the save did not raise
AfterPromptSave(save_ok) == IF save_ok THEN "generate" ELSE "raised"

\* PhaseExecutor.execute_phase up to the generation call: the plugin is
\* looked up (an error of the lookup is raised before the try block:
\* "rejected"), then the prompt is prepared and saved to ephemeral storage
ExecutePhaseBegin ==
  /\ pc = "run_stage"
  /\ phase_index < Len(CurStage.phases)
  /\ IF get_plugin(config.loaded_plugins, CurPhase.plugin) # "found"
     THEN /\ pc' = "rejected"
          /\ exc' = get_plugin(config.loaded_plugins, CurPhase.plugin)
          /\ UNCHANGED <<prompt, content_packet, retry_count, cp_outcome, llm_calls,
                         validations, ephemeral, fault>>
     ELSE /\ prompt' = prepare_prompt(story_data, CurStage, CurPhase)
          /\ content_packet' = NoPacket
          /\ retry_count' = 0
          /\ cp_outcome' = "none"
          /\ llm_calls' = << >>
          /\ validations' = << >>
          /\ \E save_ok \in BOOLEAN :
               /\ pc' = AfterPromptSave(save_ok)
               /\ IF save_ok
                  THEN /\ ephemeral' = save_content(ephemeral, CurStage.name, CurPhase.name,
                                                    "prompt", prompt')
                       /\ exc' = "none"
                       /\ fault' = "none"
                  ELSE /\ exc' = "StorageError"
                       /\ fault' = "storage"
                       /\ UNCHANGED ephemeral
  /\ UNCHANGED <<config, storage_vars, plugin_call, lookup, current_schema, gather, batch_runs, stage_index, phase_index, current_stage_index,
                 current_phase_index, story_data, batch, milestones>>

\* an execute_phase that sets the adapter's schema when the phase has one
\* and otherwise leaves the adapter as it is
SchemaForGenerationKept(held, pass_schema, phase_schema) ==
  IF phase_schema # None /\ pass_schema THEN phase_schema ELSE held

\* PhaseExecutor.execute_phase, "if has_schema and pass_schema: set_schema(
\* schema) else: set_schema(None)": the schema the adapter holds afterwards
SchemaForGeneration(held, pass_schema, phase_schema) ==
  IF phase_schema # None /\ pass_schema THEN phase_schema ELSE None

\* PhaseExecutor.execute_phase: the adapter's schema is set or cleared, then
\* the one generation call is made and the content packet is built from the
\* response.  set_schema raises ValueError on a schema text that is not JSON
\* and then holds what it held.
GenerateContent ==
  /\ pc = "generate"
  /\ \E schema_is_json \in BOOLEAN :
       IF CurPhase.schema # None /\ config.pass_schema /\ ~schema_is_json
       THEN /\ pc' = "raised"
            /\ exc' = "ValueError"
            /\ fault' = "schema"
            /\ UNCHANGED <<content_packet, milestones, llm_calls, current_schema>>
       ELSE /\ current_schema' = SchemaForGeneration(current_schema, config.pass_schema,
                                   get_phase_schema(CurStage.name, CurPhase.name))
            /\ \E o \in LLMOutcomes :
                 /\ LogCall("generate", prompt, GenerateTemperature(CurPhase), o)
                 /\ IF o = "error"
                    THEN /\ pc' = "raised"
                         /\ exc' = "RuntimeError"
                         /\ fault' = "llm"
                         /\ UNCHANGED <<content_packet, milestones>>
                    ELSE /\ content_packet' = create_content_packet(Raw(o), CurStage.name,
                                                CurPhase.name, CurPhase.plugin, "response",
                                                prompt)
                         /\ Reach(CurKey, "generated")
                         /\ pc' = "process"
                         /\ UNCHANGED <<exc, fault>>
  /\ UNCHANGED <<config, storage_vars, plugin_call, lookup, gather, batch_runs, stage_index, phase_index, current_stage_index,
                 current_phase_index, story_data, prompt, retry_count, cp_outcome,
                 ephemeral, batch, validations>>

\* DefaultContentProcessingStrategy.process up to the validation of the
\* generated content: process_wrapper, validate against the resolved schema,
\* then the ephemeral save and success, or handle_invalid_content's dispatch.
\* A ValueError (malformed content, or raised by validate) becomes the
\* StorytellerContentProcessingError of handle_processing_error.
ProcessContent ==
  /\ pc = "process"
  /\ \E save_ok \in BOOLEAN :
       LET plugin == content_packet.plugin_name
           schema == get_schema(PlugCfg, plugin, content_packet.stage_name,
                                content_packet.phase_name)
           pr == process_wrapper(plugin, content_packet.content)
           v == Validate(plugin, pr.content, save_ok)
           rejected == schema # None /\ v # "true"
           next == IF ~pr.ok THEN "ContentProcessingError"
                   ELSE IF rejected
                   THEN CASE v = "false" ->
                               HandleInvalidContent(PlugCfg, plugin, config.max_retries)
                          [] v = "ValueError" -> "ContentProcessingError"
                          [] OTHER -> "StorageError"
                   ELSE IF save_ok THEN "success" ELSE "StorageError"
       IN /\ content_packet' = IF pr.ok THEN [content_packet EXCEPT !.content = pr.content]
                               ELSE content_packet
          /\ validations' = IF pr.ok /\ schema # None
                            THEN Append(validations, [at |-> "initial",
                                                      content |-> pr.content, result |-> v,
                                          schema |-> ValidateSchema(plugin)])
                            ELSE validations
          /\ ephemeral' = IF ~pr.ok THEN ephemeral
                          ELSE IF rejected THEN AfterValidate(plugin, pr.content, save_ok)
                          ELSE IF save_ok THEN AfterSave(ephemeral, content_packet, pr.content)
                          ELSE ephemeral
          /\ Goto(next)
          /\ fault' = FaultOf(next)
          /\ milestones' = IF next = "success"
                           THEN [milestones EXCEPT ![CurKey] = @ \cup {"processed"}]
                           ELSE milestones
  /\ UNCHANGED <<config, storage_vars, plugin_call, lookup, current_schema, gather, batch_runs, stage_index, phase_index, current_stage_index,
                 current_phase_index, story_data, prompt, retry_count, exc, batch,
                 llm_calls>>

\* handle_invalid_content, the repair step: attempt_repair (one model call at
\* the repair temperature; an empty response is a ValueError), then
\* plugin.validate on the repaired content as returned by the model.  A
\* ValueError is logged and the dispatch goes on to the retry flag.
AttemptRepair ==
  /\ pc = "repair"
  /\ \E o \in LLMOutcomes, save_ok \in BOOLEAN :
       LET plugin == content_packet.plugin_name
           repair_prompt == generate_repair_prompt(content_packet.content, plugin,
                              content_packet.stage_name, content_packet.phase_name)
           repaired_content == Raw(o)
           answered == o \notin {"error", "empty"}
           v == Validate(plugin, repaired_content, save_ok)
           next == CASE o = "error" -> "RuntimeError"
                     [] o = "empty" -> AfterRepair(PlugCfg, plugin, config.max_retries)
                     [] v = "true" -> "success"
                     [] v = "StorageError" -> "StorageError"
                     [] OTHER -> AfterRepair(PlugCfg, plugin, config.max_retries)
       IN /\ LogCall("repair", repair_prompt, AttemptRepairTemperature, o)
          /\ validations' = IF answered
                            THEN Append(validations, [at |-> "repair",
                                          content |-> repaired_content, result |-> v,
                                          schema |-> ValidateSchema(plugin)])
                            ELSE validations
          /\ ephemeral' = IF answered THEN AfterValidate(plugin, repaired_content, save_ok)
                          ELSE ephemeral
          /\ content_packet' = IF next = "success"
                               THEN [content_packet EXCEPT !.content = repaired_content]
                               ELSE content_packet
          /\ Goto(next)
          /\ fault' = FaultOf(next)
          /\ milestones' = IF next = "success"
                           THEN [milestones EXCEPT ![CurKey] = @ \cup {"processed"}]
                           ELSE milestones
  /\ UNCHANGED <<config, storage_vars, plugin_call, lookup, current_schema, gather, batch_runs, stage_index, phase_index, current_stage_index,
                 current_phase_index, story_data, prompt, retry_count, exc, batch>>

\* retry_content_generation, one iteration of its loop: a model call, then
\* plugin.process and plugin.validate on the response.  A ValueError of
\* either is logged and the loop goes on; after the last iteration the
\* StorytellerContentProcessingError is raised.
RetryContentGeneration ==
  /\ pc = "retry"
  /\ \E o \in LLMOutcomes, save_ok \in BOOLEAN :
       LET plugin == content_packet.plugin_name
           si == get_stage_index_by_name(content_packet.stage_name)
           pi == get_phase_index_by_name(content_packet.stage_name,
                                         content_packet.phase_name)
           pr == process(plugin, Raw(o))
           validated == o # "error" /\ pr.ok
           v == Validate(plugin, pr.content, save_ok)
           next == CASE o = "error" -> "RuntimeError"
                     [] ~pr.ok -> NextRetry(config.max_retries, retry_count)
                     [] v = "true" -> "success"
                     [] v = "StorageError" -> "StorageError"
                     [] OTHER -> NextRetry(config.max_retries, retry_count)
       IN /\ LogCall("retry", RetryPrompt(content_packet),
                     RetryTemperature(si, pi, config.default_temperature), o)
          /\ validations' = IF validated
                            THEN Append(validations, [at |-> "retry",
                                          content |-> pr.content, result |-> v,
                                          schema |-> ValidateSchema(plugin)])
                            ELSE validations
          /\ ephemeral' = IF validated THEN AfterValidate(plugin, pr.content, save_ok)
                          ELSE ephemeral
          /\ content_packet' = IF next = "success"
                               THEN [content_packet EXCEPT !.content = pr.content]
                               ELSE content_packet
          /\ retry_count' = IF next = "retry" THEN retry_count + 1 ELSE retry_count
          /\ Goto(next)
          /\ fault' = FaultOf(next)
          /\ milestones' = IF next = "success"
                           THEN [milestones EXCEPT ![CurKey] = @ \cup {"processed"}]
                           ELSE milestones
  /\ UNCHANGED <<config, storage_vars, plugin_call, lookup, current_schema, gather, batch_runs, stage_index, phase_index, current_stage_index,
                 current_phase_index, story_data, prompt, exc, batch>>

\* an execute_phase that records the packet before it saves it
RecordBeforeSaves(failing, sd, updated_sd) == updated_sd

\* PhaseExecutor.execute_phase, the order of its last three calls:
\* update_story_data is reached only when neither save raised
RecordAfterSaves(failing, sd, updated_sd) ==
  IF failing = "none" THEN updated_sd ELSE sd

\* PhaseExecutor.execute_phase after process_content returned success: the
\* packet is saved to batch storage, then to ephemeral storage, then
\* recorded with update_story_data
ExecutePhasePersist ==
  /\ pc = "processed"
  /\ cp_outcome = "success"
  /\ \E failing \in {"none", "batch", "ephemeral"} :
       LET updated == update_story_data(story_data, CurStage.name, CurPhase.name,
                                        content_packet)
       IN /\ batch' = IF failing = "batch" THEN batch
                      ELSE AfterSave(batch, content_packet, content_packet.content)
          /\ ephemeral' = IF failing = "none"
                          THEN AfterSave(ephemeral, content_packet, content_packet.content)
                          ELSE ephemeral
          /\ story_data' = RecordAfterSaves(failing, story_data, updated.story_data)
          /\ IF failing = "none"
             THEN /\ milestones' = [milestones EXCEPT ![CurKey] = @ \cup {"persisted"}]
                  /\ pc' = IF updated.ok THEN "phase_done" ELSE "raised"
                  /\ exc' = IF updated.ok THEN "none" ELSE "ValueError"
                  /\ UNCHANGED fault
             ELSE /\ pc' = "raised"
                  /\ exc' = "StorageError"
                  /\ fault' = "storage"
                  /\ UNCHANGED milestones
  /\ UNCHANGED <<config, storage_vars, plugin_call, lookup, current_schema, gather, batch_runs, stage_index, phase_index, current_stage_index,
                 current_phase_index, prompt, content_packet, retry_count, cp_outcome,
                 llm_calls, validations>>

\* process_content raised, or returned success = False (for which
\* execute_phase raises the content-processing error itself): the exception
\* leaves execute_phase's try block
ExecutePhaseRaise ==
  /\ pc = "processed"
  /\ cp_outcome # "success"
  /\ pc' = "raised"
  /\ exc' = IF cp_outcome = "returned_false" THEN "ContentProcessingError" ELSE cp_outcome
  /\ UNCHANGED <<config, storage_vars, plugin_call, lookup, current_schema, gather, batch_runs, stage_index, phase_index, current_stage_index,
                 current_phase_index, story_data, prompt, content_packet, retry_count,
                 cp_outcome, ephemeral, batch, llm_calls, validations, fault, milestones>>

\* ----------------------------------------------------- exception handlers
\* PhaseExecutor.execute_phase, its except clause
ExecutePhaseCatch(e) ==
  IF e \in {"ContentProcessingError", "PluginError", "PluginLoadError", "ValueError",
            "TypeError"}
  THEN "RuntimeError" ELSE e

\* PipelineCoordinator.run_stage, its except clause
RunStageCatch(e) ==
  IF e \in {"ContentProcessingError", "PluginError", "PluginLoadError"}
  THEN "RuntimeError" ELSE e

\* PipelineCoordinator.run_pipeline: a RuntimeError of run_stage is logged
\* and breaks the loop ("handled"); PluginError and PluginLoadError become
\* RuntimeError
CoordinatorRunPipelineCatch(e) ==
  IF e = "RuntimeError" THEN "handled"
  ELSE IF e \in {"PluginError", "PluginLoadError"} THEN "RuntimeError" ELSE e

\* PipelineOrchestrator.run_pipeline, its except clause
RunPipelineCatch(e) ==
  IF e \in {"ContentProcessingError", "PluginError", "PluginLoadError"}
  THEN "RuntimeError" ELSE e

\* PipelineOrchestrator.run_batch, its except clause
RunBatchCatch(e) ==
  IF e \in {"ContentProcessingError", "PluginError", "PluginLoadError", "RuntimeError"}
  THEN "RuntimeError" ELSE e

\* what becomes of an exception raised inside execute_phase's try block
Disposition(e) == CoordinatorRunPipelineCatch(RunStageCatch(ExecutePhaseCatch(e)))

\* the progress cursor of the tracker
Cursor == <<current_stage_index, current_phase_index>>

\* PipelineCoordinator.run_stage after execute_phase returned: the cursor
\* moves to the next phase unless this was the stage's last phase.  A
\* ValueError of set_current_progress is caught by nobody up to run_batch.
RunStageAdvance ==
  /\ pc = "phase_done"
  /\ LET r == RunStageProgress(Cursor, phase_index, Len(CurStage.phases))
     IN /\ current_stage_index' = r.cursor[1]
        /\ current_phase_index' = r.cursor[2]
        /\ IF r.ok
           THEN /\ phase_index' = phase_index + 1
                /\ pc' = "run_stage"
                /\ UNCHANGED exc
           ELSE /\ pc' = "crashed"
                /\ exc' = RunBatchCatch(RunPipelineCatch(RunStageCatch("ValueError")))
                /\ UNCHANGED phase_index
  /\ UNCHANGED <<config, storage_vars, plugin_call, lookup, current_schema, gather, batch_runs, stage_index, story_data, prompt, content_packet,
                 retry_count, cp_outcome, ephemeral, batch, llm_calls, validations,
                 fault, milestones>>

\* PipelineCoordinator.run_pipeline after run_stage returned: the cursor
\* moves to the first phase of the next stage if there is one.  A ValueError
\* of set_current_progress is caught by nobody up to run_batch.
RunStageComplete ==
  /\ pc = "run_stage"
  /\ phase_index = Len(CurStage.phases)
  /\ LET r == RunPipelineProgress(Cursor, stage_index)
     IN /\ current_stage_index' = r.cursor[1]
        /\ current_phase_index' = r.cursor[2]
        /\ IF r.ok
           THEN /\ stage_index' = stage_index + 1
                /\ pc' = "run_pipeline"
                /\ UNCHANGED exc
           ELSE /\ pc' = "crashed"
                /\ exc' = RunBatchCatch(RunPipelineCatch("ValueError"))
                /\ UNCHANGED stage_index
  /\ UNCHANGED <<config, storage_vars, plugin_call, lookup, current_schema, gather, batch_runs, phase_index, story_data, prompt, content_packet,
                 retry_count, cp_outcome, ephemeral, batch, llm_calls, validations,
                 fault, milestones>>

\* what becomes of an exception execute_phase raised before its try block
DispositionOutsideTry(e) == CoordinatorRunPipelineCatch(RunStageCatch(e))

\* a run_stage whose except clause logs the error and goes on with the
\* stage's next phase
AfterStageFailureResumes == "phase_done"

\* PipelineCoordinator.run_pipeline, "except RuntimeError: log; break": the
\* stage loop is left and run_pipeline returns; run_batch goes on
AfterStageFailure == "batch_idle"

\* the exception travels up: the coordinator logs it and returns normally
\* (run_batch goes on with the next run), or it ends run_batch.  The phase
\* is marked as failed in this run.
PropagateError ==
  /\ pc \in {"raised", "rejected"}
  /\ LET d == IF pc = "raised" THEN Disposition(exc) ELSE DispositionOutsideTry(exc)
     IN IF d = "handled"
        THEN /\ pc' = AfterStageFailure
             /\ UNCHANGED exc
        ELSE /\ pc' = "crashed"
             /\ exc' = RunBatchCatch(RunPipelineCatch(d))
  /\ milestones' = [milestones EXCEPT ![CurKey] = @ \cup {"failed"}]
  /\ UNCHANGED <<config, storage_vars, plugin_call, lookup, current_schema, gather, batch_runs, stage_index, phase_index, current_stage_index,
                 current_phase_index, story_data, prompt, content_packet, retry_count,
                 cp_outcome, ephemeral, batch, llm_calls, validations, fault>>

Next ==
  \/ StartBatchRun
  \/ FinishBatch
  \/ RunPipelineStage
  \/ RunPipelineComplete
  \/ ExecutePhaseBegin
  \/ GenerateContent
  \/ ProcessContent
  \/ AttemptRepair
  \/ RetryContentGeneration
  \/ ExecutePhasePersist
  \/ ExecutePhaseRaise
  \/ RunStageAdvance
  \/ RunStageComplete
  \/ PropagateError

Spec == Init /\ [][Next]_vars

\* ------------------------------------------------------------- properties
\* a phase is being executed by execute_phase
Executing == pc \in {"generate", "process", "repair", "retry", "processed"}

\* the phase being executed has a resolved schema
SchemaResolved ==
  get_schema(PlugCfg, CurPhase.plugin, CurStage.name, CurPhase.name) # None

\* the model calls of the current phase execution made for a purpose
Calls(purpose) == {i \in DOMAIN llm_calls : llm_calls[i].purpose = purpose}

\* plugin.validate accepted a content during the current phase execution
Accepted == \E i \in DOMAIN validations : validations[i].result = "true"

\* the response of a model call is a valid result for the json plugin: the
\* generated and the regenerated content are unwrapped before validation,
\* the repaired content is validated as returned
ValidResponse(call) ==
  IF call.purpose = "repair" THEN call.result = "valid"
  ELSE call.result \in {"valid", "wrapped"}

\* C1: with a resolved schema, process_content returns success if and only
\* if the content validates as produced or a valid result comes out of at
\* most one repair followed by at most max_retries regenerations.  Success
\* means the last validation accepted the content the packet now holds, no
\* earlier validation accepted anything, and the content satisfies the
\* schema.  Without success, nothing was accepted (the one exception is an
\* accepted content that the ephemeral storage failed to save), and, unless
\* a collaborator failed, no response of the model was a valid result.
C1_SuccessIffValidResult ==
  (pc = "processed" /\ SchemaResolved) =>
    /\ cp_outcome = "success" =>
         /\ validations # << >>
         /\ validations[Len(validations)].result = "true"
         /\ validations[Len(validations)].content = content_packet.content
         /\ \A i \in 1..(Len(validations) - 1) : validations[i].result # "true"
         /\ content_packet.content.kind = "valid"
         /\ Cardinality(Calls("repair")) <= 1
         /\ Cardinality(Calls("retry")) <= config.max_retries
         /\ validations[Len(validations)].at = "initial" => Len(llm_calls) = 1
    /\ cp_outcome # "success" =>
         /\ Accepted => cp_outcome = "StorageError"
         /\ (CurPhase.plugin = "json" /\ fault = "none") =>
              \A i \in DOMAIN llm_calls : ~ValidResponse(llm_calls[i])

\* C1 witness: success through a regeneration that followed a failed repair
C1_Witness ==
  /\ pc = "processed"
  /\ SchemaResolved
  /\ cp_outcome = "success"
  /\ Cardinality(Calls("repair")) = 1
  /\ Cardinality(Calls("retry")) = 2

\* C2: on a schema-invalid packet the repair call is made at most once,
\* every regeneration call comes after the repair call, and there are never
\* more than max_retries regeneration calls.
C2_RepairOnceThenBoundedRetries ==
  /\ Cardinality(Calls("repair")) <= 1
  /\ \A i \in Calls("repair") : \A j \in Calls("retry") : i < j
  /\ Cardinality(Calls("retry")) <= config.max_retries

\* C2 witness: a repair call followed by all the regenerations allowed
C2_Witness ==
  /\ Cardinality(Calls("repair")) = 1
  /\ config.max_retries > 0
  /\ Cardinality(Calls("retry")) = config.max_retries
  /\ llm_calls[Len(llm_calls)].purpose = "retry"

\* the phase completed in the current run: generation, processing and
\* persistence all succeeded
Completed(key) == {"generated", "processed", "persisted"} \subseteq milestones[key]

\* the file a tier holds for a packet saved under its identifier
FileOf(packet) ==
  [stage |-> packet.stage_name, phase |-> packet.phase_name,
   identifier |-> packet.identifier, content |-> packet.content]

\* C3: story_data has an entry for (stage, phase) if and only if the phase
\* completed successfully (generated, processed, persisted) since the last
\* reset; the entry is the packet that both storage tiers hold.
C3_EntryIffCompleted ==
  \A key \in PhaseKeys :
    /\ HasEntry(story_data, key[1], key[2]) <=> Completed(key)
    /\ HasEntry(story_data, key[1], key[2]) =>
         /\ story_data[key[1]][key[2]].stage_name = key[1]
         /\ story_data[key[1]][key[2]].phase_name = key[2]
         /\ FileOf(story_data[key[1]][key[2]]) \in batch
         /\ FileOf(story_data[key[1]][key[2]]) \in ephemeral

\* C3 witness: in a later run of the batch, phase A is recorded and phase B,
\* generated and processed, failed to persist and is not
C3_Witness ==
  /\ batch_runs > 1
  /\ HasEntry(story_data, "S1", "A")
  /\ ~HasEntry(story_data, "S1", "B")
  /\ {"generated", "processed"} \subseteq milestones[<<"S1", "B">>]
  /\ pc = "raised"

\* C4: phases execute strictly in sequence.  While a phase is executing
\* (its prompt prepared, its model calls issued), every phase that precedes
\* it in the run has its story_data entry, no later phase has started, the
\* prompt is the executing phase's own and quotes the recorded output of the
\* phase it refers to, and every model call logged belongs to it.
C4_StrictlySequential ==
  Executing =>
    /\ \A key \in PhaseKeys :
         /\ OrderOf(key) < OrderOf(CurKey) => HasEntry(story_data, key[1], key[2])
         /\ OrderOf(key) > OrderOf(CurKey) => milestones[key] = {}
         /\ OrderOf(key) >= OrderOf(CurKey) => ~HasEntry(story_data, key[1], key[2])
    /\ prompt.stage = CurStage.name /\ prompt.phase = CurPhase.name
    /\ CurPhase.ref # None =>
         /\ HasEntry(story_data, CurPhase.ref[1][1], CurPhase.ref[1][2])
         /\ prompt.quoted =
              Some(story_data[CurPhase.ref[1][1]][CurPhase.ref[1][2]].content)
    /\ \A i \in Calls("generate") : llm_calls[i].prompt = prompt

\* C4 witness: phase C of the second stage has issued its generation call
\* with a prompt that quotes phase B's output
C4_Witness ==
  /\ pc = "process"
  /\ CurKey = <<"S2", "C">>
  /\ HasEntry(story_data, "S1", "B")
  /\ llm_calls # << >>
  /\ llm_calls[1].prompt.quoted = Some(story_data["S1"]["B"].content)

\* plugin.process raised a format error on the response of a model call:
\* process_wrapper on the generated content, process on a regenerated one
\* (the repaired content is never passed to plugin.process)
FormatError(call) ==
  /\ call.result # "error"
  /\ \/ call.purpose = "generate" /\ ~process_wrapper(CurPhase.plugin, Raw(call.result)).ok
     \/ call.purpose = "retry" /\ ~process(CurPhase.plugin, Raw(call.result)).ok

\* C5 as stated: a format error of plugin.process is never retried: no model
\* call follows the call whose response was malformed, neither repair nor
\* retry is pending after it, and process_content ends with the
\* content-processing error.
C5_FormatErrorNeverRetried ==
  Executing =>
    \A i \in DOMAIN llm_calls :
      FormatError(llm_calls[i]) =>
        /\ i = Len(llm_calls)
        /\ pc \notin {"repair", "retry"}
        /\ pc = "processed" => cp_outcome = "ContentProcessingError"

\* C5 amended: a format error of plugin.process on the generated content is
\* never retried: it becomes the content-processing error at once, with no
\* repair and no regeneration call.  A format error on a regenerated content
\* (inside retry_content_generation) is logged and counts as a failed
\* attempt: the next regeneration follows while attempts remain, and the
\* content-processing error is raised only after attempt max_retries.
C5_FormatErrorFatalOnlyAsProduced ==
  Executing =>
    \A i \in DOMAIN llm_calls :
      FormatError(llm_calls[i]) =>
        /\ llm_calls[i].purpose = "generate" =>
             /\ Len(llm_calls) = 1
             /\ pc \in {"process", "processed"}
             /\ pc = "processed" => cp_outcome = "ContentProcessingError"
        /\ llm_calls[i].purpose = "retry" =>
             /\ pc # "repair"
             /\ i < Len(llm_calls) => llm_calls[i + 1].purpose = "retry"
             /\ (i = Len(llm_calls) /\ pc = "retry") =>
                  Cardinality(Calls("retry")) < config.max_retries
             /\ (i = Len(llm_calls) /\ pc = "processed") =>
                  /\ cp_outcome = "ContentProcessingError"
                  /\ Cardinality(Calls("retry")) = config.max_retries

\* C5 witness: a regeneration whose response was malformed is followed by
\* another regeneration
C5_Witness ==
  /\ Executing
  /\ \E i \in Calls("retry") :
       /\ FormatError(llm_calls[i])
       /\ i < Len(llm_calls)
       /\ llm_calls[i + 1].purpose = "retry"

\* handle_invalid_content was entered: the content as produced failed the
\* schema validation
FirstInvalid == validations # << >> /\ validations[1].result = "false"

\* C6: when the processed content fails validation and neither the repair
\* nor the retry flag of the plugin is set, process_content raises the
\* content-processing error and the generation call of execute_phase stays
\* the only model call; when the enabled paths are exhausted (the repair
\* made if enabled, all max_retries regenerations made if enabled, nothing
\* accepted, no collaborator failure) it raises the same error.
C6_RaisesWhenNothingLeft ==
  (Executing /\ FirstInvalid) =>
    /\ (~get_plugin_repair_setting(PlugCfg, CurPhase.plugin)
        /\ ~get_plugin_retry_setting(PlugCfg, CurPhase.plugin)) =>
         /\ pc = "processed"
         /\ cp_outcome = "ContentProcessingError"
         /\ Len(llm_calls) = 1
    /\ (pc = "processed" /\ ~Accepted /\ fault = "none") =>
         /\ cp_outcome = "ContentProcessingError"
         /\ Cardinality(Calls("repair")) =
              (IF get_plugin_repair_setting(PlugCfg, CurPhase.plugin) THEN 1 ELSE 0)
         /\ Cardinality(Calls("retry")) =
              (IF get_plugin_retry_setting(PlugCfg, CurPhase.plugin)
               THEN config.max_retries ELSE 0)

\* C6 witness: invalid content, both flags off, the error raised
C6_Witness ==
  /\ pc = "processed"
  /\ FirstInvalid
  /\ ~get_plugin_repair_setting(PlugCfg, CurPhase.plugin)
  /\ ~get_plugin_retry_setting(PlugCfg, CurPhase.plugin)
  /\ cp_outcome = "ContentProcessingError"

\* C7 as stated: whenever process_content returns success, through the
\* first validation, a repair or a retry, the accepted packet is in the
\* ephemeral storage when the call returns.
C7_AcceptedPacketSavedBeforeReturn ==
  (pc = "processed" /\ cp_outcome = "success") => FileOf(content_packet) \in ephemeral

\* C8: execute_phase calls the adapter exactly once, with the phase prompt;
\* every other model call of the phase execution is a repair or a retry of
\* the content processor, and there are at most 1 + 1 + max_retries calls.
C8_OneGenerationCallPerPhase ==
  /\ Cardinality(Calls("generate")) <= 1
  /\ llm_calls # << >> => llm_calls[1].purpose = "generate"
  /\ pc \in {"process", "repair", "retry", "processed", "phase_done"} =>
       /\ Cardinality(Calls("generate")) = 1
       /\ llm_calls[1].prompt = prompt
       /\ prompt.stage = CurStage.name /\ prompt.phase = CurPhase.name
       /\ llm_calls[1].temperature = CurPhase.temperature
  /\ pc \in {"process", "phase_done"} /\ ~SchemaResolved => Len(llm_calls) = 1
  /\ Len(llm_calls) <= 1 + 1 + config.max_retries

\* C8 witness: a phase execution that made all the calls it may make
C8_Witness ==
  /\ pc = "processed"
  /\ config.max_retries > 0
  /\ Len(llm_calls) = 1 + 1 + config.max_retries

\* C9 as stated: every regeneration call sends the phase's original prompt
C9_RetrySendsOriginalPrompt ==
  \A i \in Calls("retry") : llm_calls[i].prompt = prompt

\* the temperature the phase is configured with: its explicit temperature,
\* else the global default
ConfiguredTemperature ==
  IF CurPhase.temperature # None THEN CurPhase.temperature[1]
  ELSE config.default_temperature

\* C10: the repair call runs at the one fixed repair temperature whatever
\* the phase; every regeneration call runs at the phase's configured
\* temperature (explicit, else the global default), which is the temperature
\* the phase's generation call ran at.
C10_RepairFixedRetryPhaseTemperature ==
  Executing =>
    /\ \A i \in Calls("repair") :
         EffectiveTemperature(llm_calls[i].temperature, config.default_temperature)
           = RepairTemperature
    /\ \A i \in Calls("retry") :
         /\ EffectiveTemperature(llm_calls[i].temperature, config.default_temperature)
              = ConfiguredTemperature
         /\ EffectiveTemperature(llm_calls[i].temperature, config.default_temperature)
              = EffectiveTemperature(llm_calls[1].temperature, config.default_temperature)
    /\ \A i \in Calls("generate") :
         EffectiveTemperature(llm_calls[i].temperature, config.default_temperature)
           = ConfiguredTemperature

\* C10 witness: in a phase with an explicit temperature, a repair call at
\* the repair temperature and then a regeneration at the phase's temperature
C10_Witness ==
  /\ Executing
  /\ CurPhase.temperature # None
  /\ CurPhase.temperature[1] # config.default_temperature
  /\ Calls("repair") # {}
  /\ Calls("retry") # {}

\* the repair step was made and plugin.validate did not accept its result
RepairFailed ==
  /\ Calls("repair") # {}
  /\ pc # "repair"
  /\ \A i \in DOMAIN validations :
       validations[i].at = "repair" => validations[i].result # "true"

\* C11 as stated: when the repair step fails for any reason (the model call
\* errors, returns nothing, or the repaired content is still invalid) and
\* the retry flag of the plugin is set, the processor goes on to the
\* regeneration attempts (with max_retries > 0 and no storage failure: the
\* retry loop is entered or a regeneration call has been made).
C11_FailedRepairGoesOnToRetry ==
  (/\ Executing
   /\ RepairFailed
   /\ get_plugin_retry_setting(PlugCfg, CurPhase.plugin)
   /\ config.max_retries > 0
   /\ fault # "storage")
    => (pc = "retry" \/ Calls("retry") # {})

\* ------------------------------------------- repair-only processing strategy
\* a repair-only strategy that regenerates after a failed repair, as the
\* default strategy does
RepairOnlyAfterRepairRetries(v, save_ok) ==
  CASE v = "true" -> IF save_ok THEN "success" ELSE "StorageError"
    [] v = "false" -> "retry"
    [] v = "ValueError" -> "ContentProcessingError"
    [] OTHER -> "StorageError"

\* RepairOnlyContentProcessingStrategy.process after plugin.validate on the
\* repaired content: accepted, the packet is saved and True returned;
\* rejected, False is returned; a ValueError becomes the
\* StorytellerContentProcessingError of handle_processing_error
RepairOnlyAfterRepair(v, save_ok) ==
  CASE v = "true" -> IF save_ok THEN "success" ELSE "StorageError"
    [] v = "false" -> "returned_false"
    [] v = "ValueError" -> "ContentProcessingError"
    [] OTHER -> "StorageError"

\* RepairOnlyContentProcessingStrategy.process up to the validation of the
\* generated content: plugin.process, validate against the resolved schema,
\* then the ephemeral save and success, or the repair step (whatever the
\* plugin's repair flag)
ProcessContentRepairOnly ==
  /\ pc = "process"
  /\ \E save_ok \in BOOLEAN :
       LET plugin == content_packet.plugin_name
           schema == get_schema(PlugCfg, plugin, content_packet.stage_name,
                                content_packet.phase_name)
           pr == process(plugin, content_packet.content)
           v == Validate(plugin, pr.content, save_ok)
           rejected == schema # None /\ v # "true"
           next == IF ~pr.ok THEN "ContentProcessingError"
                   ELSE IF rejected
                   THEN CASE v = "false" -> "repair"
                          [] v = "ValueError" -> "ContentProcessingError"
                          [] OTHER -> "StorageError"
                   ELSE IF save_ok THEN "success" ELSE "StorageError"
       IN /\ content_packet' = IF pr.ok THEN [content_packet EXCEPT !.content = pr.content]
                               ELSE content_packet
          /\ validations' = IF pr.ok /\ schema # None
                            THEN Append(validations, [at |-> "initial",
                                                      content |-> pr.content, result |-> v,
                                          schema |-> ValidateSchema(plugin)])
                            ELSE validations
          /\ ephemeral' = IF ~pr.ok THEN ephemeral
                          ELSE IF rejected THEN AfterValidate(plugin, pr.content, save_ok)
                          ELSE IF save_ok THEN AfterSave(ephemeral, content_packet, pr.content)
                          ELSE ephemeral
          /\ Goto(next)
          /\ fault' = FaultOf(next)
          /\ milestones' = IF next = "success"
                           THEN [milestones EXCEPT ![CurKey] = @ \cup {"processed"}]
                           ELSE milestones
  /\ UNCHANGED <<config, storage_vars, plugin_call, lookup, current_schema, gather, batch_runs, stage_index, phase_index, current_stage_index,
                 current_phase_index, story_data, prompt, retry_count, exc, batch,
                 llm_calls>>

\* RepairOnlyContentProcessingStrategy.process, the repair step:
\* attempt_repair (one model call; an empty response is a ValueError), then
\* plugin.validate on the repaired content, the ephemeral save and True, or
\* False
RepairOnlyAttemptRepair ==
  /\ pc = "repair"
  /\ \E o \in LLMOutcomes, save_ok \in BOOLEAN :
       LET plugin == content_packet.plugin_name
           repair_prompt == generate_repair_prompt(content_packet.content, plugin,
                              content_packet.stage_name, content_packet.phase_name)
           repaired_content == Raw(o)
           answered == o \notin {"error", "empty"}
           v == Validate(plugin, repaired_content, save_ok)
           next == CASE o = "error" -> "RuntimeError"
                     [] o = "empty" -> "ContentProcessingError"
                     [] OTHER -> RepairOnlyAfterRepair(v, save_ok)
       IN /\ LogCall("repair", repair_prompt, AttemptRepairTemperature, o)
          /\ validations' = IF answered
                            THEN Append(validations, [at |-> "repair",
                                          content |-> repaired_content, result |-> v,
                                          schema |-> ValidateSchema(plugin)])
                            ELSE validations
          /\ content_packet' = IF answered /\ v = "true"
                               THEN [content_packet EXCEPT !.content = repaired_content]
                               ELSE content_packet
          /\ ephemeral' = IF ~answered THEN ephemeral
                          ELSE IF v = "true"
                          THEN (IF save_ok
                                THEN AfterSave(ephemeral, content_packet, repaired_content)
                                ELSE ephemeral)
                          ELSE AfterValidate(plugin, repaired_content, save_ok)
          /\ Goto(next)
          /\ fault' = FaultOf(next)
          /\ milestones' = IF next = "success"
                           THEN [milestones EXCEPT ![CurKey] = @ \cup {"processed"}]
                           ELSE milestones
  /\ UNCHANGED <<config, storage_vars, plugin_call, lookup, current_schema, gather, batch_runs, stage_index, phase_index, current_stage_index,
                 current_phase_index, story_data, prompt, retry_count, exc, batch>>

\* the batch run of a processor constructed with the repair-only strategy
NextRepairOnly ==
  \/ StartBatchRun
  \/ FinishBatch
  \/ RunPipelineStage
  \/ RunPipelineComplete
  \/ ExecutePhaseBegin
  \/ GenerateContent
  \/ ProcessContentRepairOnly
  \/ RepairOnlyAttemptRepair
  \/ ExecutePhasePersist
  \/ ExecutePhaseRaise
  \/ RunStageAdvance
  \/ RunStageComplete
  \/ PropagateError

SpecRepairOnly == Init /\ [][NextRepairOnly]_vars

\* plugin.validate returned False on the repaired content
RepairRejected ==
  \E i \in DOMAIN validations :
    validations[i].at = "repair" /\ validations[i].result = "false"

\* under the repair-only strategy: no regeneration is ever made, there is
\* at most one repair call, and success is returned only for a content that
\* validated as produced or after the one repair (and was saved)
RepairOnlyNeverRegenerates ==
  /\ pc # "retry"
  /\ Calls("retry") = {}
  /\ Cardinality(Calls("repair")) <= 1
  /\ (pc = "processed" /\ SchemaResolved /\ cp_outcome = "success") =>
       /\ validations # << >>
       /\ validations[Len(validations)].result = "true"
       /\ validations[Len(validations)].content = content_packet.content
       /\ validations[Len(validations)].at \in {"initial", "repair"}
       /\ \A i \in 1..(Len(validations) - 1) : validations[i].result # "true"
       /\ content_packet.content.kind = "valid"
       /\ FileOf(content_packet) \in ephemeral

\* C12 as stated: under the repair-only strategy no regeneration call is
\* ever made; when the content is still invalid after the single repair
\* attempt, process returns failure (success = false); success is returned only
\* for content that validated as produced or after that one repair.
C12_RepairOnlyReturnsFailure ==
  /\ RepairOnlyNeverRegenerates
  /\ (pc = "processed" /\ FirstInvalid /\ RepairFailed /\ fault = "none") =>
       cp_outcome = "returned_false"

\* C12 amended: under the repair-only strategy no regeneration call is ever
\* made and success is returned only for content that validated as produced
\* or after the one repair.  When the repaired content parses and still fails
\* the schema (plugin.validate returns False), process returns failure
\* (success = false); when the repair response is empty, or does not parse
\* (plugin.validate raises), process raises the content-processing error.
C12_RepairOnlyFailsWithoutRegenerating ==
  /\ RepairOnlyNeverRegenerates
  /\ (pc = "processed" /\ FirstInvalid /\ RepairFailed /\ fault = "none") =>
       IF RepairRejected THEN cp_outcome = "returned_false"
       ELSE cp_outcome = "ContentProcessingError"

\* C12 witness: the repaired content is still invalid and process returned
\* failure, with one repair call and no regeneration
C12_Witness ==
  /\ pc = "processed"
  /\ FirstInvalid
  /\ RepairRejected
  /\ cp_outcome = "returned_false"
  /\ Len(llm_calls) = 2

\* the phases that failed in the current run
FailedPhases == {key \in PhaseKeys : "failed" \in milestones[key]}

\* C13: once a stage has failed in a run (one of its phases failed), no
\* later phase of that stage and no phase of a later stage is executed in
\* that run: nothing is executing after the failure, the failed phase is the
\* one the loops stopped at, and no later phase has generated, processed,
\* persisted or recorded anything.
C13_NothingRunsAfterFailure ==
  \A failed \in FailedPhases :
    /\ pc \in {"batch_idle", "batch_done", "crashed"}
    /\ failed = CurKey
    /\ ~HasEntry(story_data, failed[1], failed[2])
    /\ \A key \in PhaseKeys :
         OrderOf(key) > OrderOf(failed) =>
           /\ milestones[key] = {}
           /\ ~HasEntry(story_data, key[1], key[2])

\* C13 witness: phase A was recorded, phase B of the same stage failed, and
\* the run is over with phases C and D never started
C13_Witness ==
  /\ pc = "batch_idle"
  /\ FailedPhases = {<<"S1", "B">>}
  /\ HasEntry(story_data, "S1", "A")
  /\ milestones[<<"S2", "C">>] = {}

\* C14 as stated: when a fatal error occurs inside a stage, run_pipeline
\* logs it, halts the rest of the pipeline and returns to its caller without
\* raising: after a failed phase the batch loop is back in control (the
\* pipeline run ended normally) and no exception has left run_pipeline.
C14_FatalErrorLoggedNotRaised ==
  FailedPhases # {} =>
    /\ pc \in {"batch_idle", "batch_done"}
    /\ exc = "RuntimeError"

\* C15: during run_stage, after each non-final phase completes the cursor
\* becomes (index of the stage being run, phase index + 1); after the
\* stage's final phase run_stage leaves the cursor as it is, and run_pipeline
\* moves it to (next stage index, 0) only if there is a next stage, and
\* leaves it alone after the last stage.
C15_CursorFollowsCompletedPhases ==
  [][/\ (pc = "phase_done" /\ pc' = "run_stage") =>
          IF phase_index + 1 < Len(CurStage.phases)
          THEN Cursor' = <<stage_index, phase_index + 1>>
          ELSE Cursor' = Cursor /\ Cursor = <<stage_index, phase_index>>
     /\ (pc = "run_stage" /\ pc' = "run_pipeline") =>
          IF stage_index + 1 < Len(stages)
          THEN Cursor' = <<stage_index + 1, 0>>
          ELSE Cursor' = Cursor /\ Cursor = <<stage_index, phase_index - 1>>]_vars

\* C15 witness: the last stage has run to its end in a second run; the
\* cursor was moved stage by stage and phase by phase and rests on the last
\* phase
C15_Witness ==
  /\ pc = "run_pipeline"
  /\ batch_runs = 2
  /\ stage_index = Len(stages)
  /\ Cursor = <<Len(stages) - 1, Len(stages[Len(stages)].phases) - 1>>

\* ------------------------------------------- the progress tracker's methods
\* Largest index offered to set_current_progress; the smallest is -1.
MaxIndexInput == 2

IndexInputs == -1..MaxIndexInput

\* names offered to update_story_data: the configured stages, enabled or
\* not, and their phases, and one name that is configured nowhere
StageNameInputs == {"S0", "S1", "SX", "S2", "nowhere"}
PhaseNameInputs == {"A", "B", "C", "X", "nowhere"}
ContentInputs == {Processed("valid"), Processed("wrapped")}

\* a stage that is configured with an empty list of phases
EmptyStage == [name |-> "S0", order |-> 4, enabled |-> TRUE, phases |-> << >>]

\* the stages sections explored for the tracker: the one of the batch runs,
\* the same with every stage disabled, and two with a stage without phases
Registries ==
  {ConfiguredStages,
   [i \in 1..Len(ConfiguredStages) |-> [ConfiguredStages[i] EXCEPT !.enabled = FALSE]],
   <<EmptyStage, ConfiguredStages[1]>>,
   <<ConfiguredStages[1], EmptyStage>>}

\* the tracker reads nothing of the plugin and retry settings: one setting of
\* them, with repair and retries enabled, goes with every registry
TrackerConfigs ==
  {[c EXCEPT !.stages = r] :
     c \in {d \in Configs : /\ d.plugin_configs["json"].repair
                            /\ d.plugin_configs["json"].retry
                            /\ d.plugin_configs["json"].default_schema = None
                            /\ d.plugin_configs["text"].default_schema = None
                            /\ d.max_retries = MaxRetriesBound
                            /\ d.pass_schema},
     r \in Registries}

InitTracker ==
  /\ config \in TrackerConfigs
  /\ Constructed

\* a holder of the tracker calls its methods before the batch is run
TrackerInUse == pc = "batch_idle" /\ batch_runs = 0

\* StorytellerProgressTracker.reset
TrackerReset ==
  /\ TrackerInUse
  /\ story_data' = reset_story_data(story_data)
  /\ current_stage_index' = reset_cursor(Cursor)[1]
  /\ current_phase_index' = reset_cursor(Cursor)[2]
  /\ exc' = "none"
  /\ UNCHANGED <<config, storage_vars, plugin_call, lookup, current_schema, gather, pc, batch_runs, stage_index, phase_index, prompt, content_packet,
                 retry_count, cp_outcome, ephemeral, batch, llm_calls, validations,
                 fault, milestones>>

\* StorytellerProgressTracker.set_current_progress(si, pi); exc records the
\* ValueError the caller gets
TrackerSetCurrentProgress ==
  /\ TrackerInUse
  /\ \E si \in IndexInputs, pi \in IndexInputs :
       LET r == set_current_progress(Cursor, si, pi)
       IN /\ current_stage_index' = r.cursor[1]
          /\ current_phase_index' = r.cursor[2]
          /\ exc' = r.error
  /\ UNCHANGED <<config, storage_vars, plugin_call, lookup, current_schema, gather, pc, batch_runs, stage_index, phase_index, story_data, prompt,
                 content_packet, retry_count, cp_outcome, ephemeral, batch, llm_calls,
                 validations, fault, milestones>>

\* StorytellerProgressTracker.update_story_data(stage_name, phase_name,
\* content); exc records the ValueError the caller gets
TrackerUpdateStoryData ==
  /\ TrackerInUse
  /\ \E stage_name \in StageNameInputs, phase_name \in PhaseNameInputs,
        content \in ContentInputs :
       LET r == update_story_data(story_data, stage_name, phase_name, content)
       IN /\ story_data' = r.story_data
          /\ exc' = IF r.ok THEN "none" ELSE "ValueError: Invalid name"
  /\ UNCHANGED <<config, storage_vars, plugin_call, lookup, current_schema, gather, pc, batch_runs, stage_index, phase_index, current_stage_index,
                 current_phase_index, prompt, content_packet, retry_count, cp_outcome,
                 ephemeral, batch, llm_calls, validations, fault, milestones>>

\* the tracker's methods called directly, then the batch runs
NextTracker ==
  \/ TrackerReset
  \/ TrackerSetCurrentProgress
  \/ TrackerUpdateStoryData
  \/ StartBatchRun
  \/ FinishBatch
  \/ RunPipelineStage
  \/ RunPipelineComplete
  \/ ExecutePhaseBegin
  \/ GenerateContent
  \/ ProcessContent
  \/ AttemptRepair
  \/ RetryContentGeneration
  \/ ExecutePhasePersist
  \/ ExecutePhaseRaise
  \/ RunStageAdvance
  \/ RunStageComplete
  \/ PropagateError

SpecTracker == InitTracker /\ [][NextTracker]_vars

\* the cursor designates an existing stage and an existing phase of it
CursorValid ==
  /\ current_stage_index \in 0..(Len(stages) - 1)
  /\ current_phase_index \in 0..(Len(stages[current_stage_index + 1].phases) - 1)

\* C16 as stated: in every reachable state the cursor designates an existing
\* stage of the registry and an existing phase of that stage.
C16_CursorAlwaysInBounds == CursorValid

\* C16, amended: in every reachable state the cursor designates an existing
\* stage and an existing phase of it, or it is the (0,0) of construction and
\* reset; so it is always in bounds exactly when the registry has a first
\* stage with at least one phase.
C16_CursorInBoundsOrReset ==
  /\ CursorValid \/ Cursor = <<0, 0>>
  /\ (Len(stages) > 0 /\ Len(stages[1].phases) > 0) => CursorValid

\* C16 witness: the cursor was set to the last phase of the last stage, a
\* later call with indices out of range was rejected, and the cursor is
\* still in bounds
C16_Witness ==
  /\ TrackerInUse
  /\ Len(stages) = 2
  /\ Cursor = <<1, 1>>
  /\ exc = "ValueError: Invalid stage_index"

\* C17: set_current_progress raises for every stage index outside
\* [0, numStages) and for every phase index outside [0, numPhases(stage)),
\* and the rejected call leaves both components of the cursor as they were.
C17_InvalidProgressRejectedUnchanged ==
  \A si \in IndexInputs, pi \in IndexInputs :
    LET r == set_current_progress(Cursor, si, pi)
        stage_in_range == si \in 0..(Len(stages) - 1)
        phase_in_range == stage_in_range /\ pi \in 0..(Len(stages[si + 1].phases) - 1)
    IN (~stage_in_range \/ ~phase_in_range) => (~r.ok /\ r.cursor = Cursor)

\* C17 witness: the cursor was moved to (1,0), then a call with an existing
\* stage and a phase index out of range was rejected and the cursor is still
\* (1,0)
C17_Witness ==
  /\ TrackerInUse
  /\ Cursor = <<1, 0>>
  /\ exc = "ValueError: Invalid phase_index"

\* the (stage name, phase name) pair exists in the registry
PairExists(stage_name, phase_name) ==
  \E i \in 1..Len(stages) :
    /\ stages[i].name = stage_name
    /\ \E j \in 1..Len(stages[i].phases) : stages[i].phases[j].name = phase_name

\* C18: update_story_data raises for every (stage name, phase name) pair that
\* is not in the registry; for a pair that is, it stores the content under
\* that key, replacing what was there and leaving every other entry alone,
\* and applying the same update again changes nothing.
C18_UpdateRejectsUnknownOverwritesKnown ==
  \A stage_name \in StageNameInputs, phase_name \in PhaseNameInputs,
     content \in ContentInputs :
    LET r == update_story_data(story_data, stage_name, phase_name, content)
    IN IF ~PairExists(stage_name, phase_name)
       THEN ~r.ok
       ELSE /\ r.ok
            /\ get_story_data(r.story_data, stage_name, phase_name) = Some(content)
            /\ \A k \in PhaseKeys \ {<<stage_name, phase_name>>} :
                 get_story_data(r.story_data, k[1], k[2]) = get_story_data(story_data, k[1], k[2])
            /\ update_story_data(r.story_data, stage_name, phase_name, content) = r

\* C18 witness: an entry was stored and then overwritten with another
\* content, a second entry is in place, and the last call was rejected
C18_Witness ==
  /\ TrackerInUse
  /\ get_story_data(story_data, "S1", "A") = Some(Processed("wrapped"))
  /\ get_story_data(story_data, "S1", "B") = Some(Processed("valid"))
  /\ exc = "ValueError: Invalid name"

\* a pipeline run has started and its first phase has not been persisted
AtStartOfRun ==
  /\ batch_runs > 0
  /\ stage_index = 0
  /\ phase_index = 0
  /\ pc \in {"run_pipeline", "run_stage", "generate", "process", "repair", "retry",
            "processed"}

\* C19: at the start of every pipeline run of a batch, before its first
\* phase executes (and until that phase is persisted), the progress state
\* is the reset one: the cursor is (0,0) and story_data is empty, whatever
\* the earlier runs of the batch recorded.
C19_EveryRunStartsReset ==
  AtStartOfRun => (Cursor = <<0, 0>> /\ story_data = EmptyDict)

\* C19 witness: the first run went through to its last phase, and the second
\* run is about to execute its first phase with the progress state reset
C19_Witness ==
  /\ batch_runs = 2
  /\ pc = "run_stage"
  /\ stage_index = 0
  /\ phase_index = 0
  /\ content_packet.phase_name = "D"
  /\ story_data = EmptyDict
  /\ Cursor = <<0, 0>>

\* C20: for a successful phase, story_data is updated only after the
\* processed packet has been saved to both batch storage and ephemeral
\* storage, and with that packet; if either save fails (the storage error
\* leaves execute_phase), story_data is not updated for that phase.
C20_RecordedOnlyAfterBothSaves ==
  [][(pc = "processed" /\ cp_outcome = "success") =>
       /\ story_data' # story_data =>
            /\ FileOf(content_packet) \in batch'
            /\ FileOf(content_packet) \in ephemeral'
            /\ get_story_data(story_data', CurStage.name, CurPhase.name) = Some(content_packet)
            /\ pc' = "phase_done"
       /\ (pc' = "raised" /\ exc' = "StorageError") => story_data' = story_data
       /\ pc' \in {"phase_done", "raised"}]_vars

\* C20 witness: the packet of phase B was saved to batch storage, the save to
\* ephemeral storage failed, and story_data has phase A's entry only
C20_Witness ==
  /\ pc = "raised"
  /\ cp_outcome = "success"
  /\ exc = "StorageError"
  /\ CurKey = <<"S1", "B">>
  /\ FileOf(content_packet) \in batch
  /\ HasEntry(story_data, "S1", "A")
  /\ ~HasEntry(story_data, "S1", "B")

\* PhaseExecutor.execute_phase, its except clause: the exception is caught
\* and raised again as a RuntimeError whose message names the stage and the
\* phase ("Error in {stage}_{phase}: ...")
LeavesTagged(e) == e # "RuntimeError" /\ ExecutePhaseCatch(e) = "RuntimeError"

\* C21 as stated: no error during execute_phase is silently dropped: a
\* content-processing, plugin, type, value or storage error that repair and
\* retry did not resolve leaves execute_phase as a fatal error tagged with
\* the stage and phase, and execute_phase returns normally only after the
\* phase's story_data entry has been recorded.
C21_FailuresLeaveTagged ==
  /\ (pc = "raised" /\ exc \in {"ContentProcessingError", "PluginError", "PluginLoadError",
                                "TypeError", "ValueError", "StorageError"})
       => LeavesTagged(exc)
  /\ pc = "phase_done" => HasEntry(story_data, CurStage.name, CurPhase.name)

\* the schema the current phase configures, if the adapter passes schemas
PhaseSchemaToPass ==
  IF CurPhase.schema # None /\ config.pass_schema THEN CurPhase.schema ELSE None

\* C22: whenever execute_phase issues its generation call, the schema the
\* adapter holds is the current phase's schema if the phase has one and the
\* adapter passes schemas, and is cleared otherwise: a schema set for an
\* earlier phase is never in effect during a later phase's generation.
C22_AdapterSchemaIsThePhases ==
  [][(pc = "generate" /\ llm_calls' # llm_calls) =>
       current_schema' = PhaseSchemaToPass]_vars

\* C22 witness: phase A generated with its schema set on the adapter; phase
\* B, which has none, has generated with the adapter's schema cleared
C22_Witness ==
  /\ pc = "process"
  /\ CurKey = <<"S1", "B">>
  /\ config.pass_schema
  /\ Calls("generate") # {}
  /\ current_schema = None
  /\ story_data["S1"]["A"].content.tag = "processed"

\* the prompt packet of the current phase as the ephemeral storage holds it
PromptFile ==
  [stage |-> CurStage.name, phase |-> CurPhase.name, identifier |-> "prompt",
   content |-> prompt]

\* execute_phase is inside its try block, or has just left it
InPhase ==
  pc \in {"generate", "process", "repair", "retry", "processed", "raised", "phase_done"}

\* C23: in every phase execution the prompt packet is saved to ephemeral
\* storage before the model adapter is called: no model call of the phase
\* exists without the prompt file being in ephemeral storage, and when the
\* save failed the phase has raised without any call.
C23_PromptSavedBeforeGeneration ==
  InPhase =>
    /\ llm_calls # << >> => PromptFile \in ephemeral
    /\ pc # "raised" => PromptFile \in ephemeral
    /\ PromptFile \notin ephemeral => (llm_calls = << >> /\ exc = "StorageError")

\* C23 witness: the prompt of phase B (which quotes phase A's output) could
\* not be saved; the phase raised and no model call was made
C23_Witness ==
  /\ pc = "raised"
  /\ CurKey = <<"S1", "B">>
  /\ prompt.phase = "B"
  /\ PromptFile \notin ephemeral
  /\ llm_calls = << >>

\* ------------------------------------------ a phase with an unloaded plugin
\* the configurations in which the list plugin (phase C's) is not among the
\* loaded plugins, next to those in which every plugin is loaded; one
\* setting of the repair and retry options
ConfigsUnloaded ==
  LET one == {d \in Configs : /\ d.plugin_configs["json"].repair
                              /\ d.plugin_configs["json"].retry
                              /\ d.plugin_configs["json"].default_schema = None
                              /\ d.plugin_configs["text"].default_schema = None
                              /\ d.max_retries = MaxRetriesBound
                              /\ d.pass_schema}
  IN one \cup {[c EXCEPT !.loaded_plugins = Plugins \ {"list"}] : c \in one}

InitUnloaded ==
  /\ config \in ConfigsUnloaded
  /\ Constructed

SpecUnloaded == InitUnloaded /\ [][Next]_vars

\* C24 as stated: execute_phase for a phase whose plugin is not a loaded
\* plugin fails with a fatal ValueError-class error before any prompt is
\* persisted or any model call is made, and leaves story_data and the cursor
\* unchanged.
C24_UnknownPluginValueError ==
  [][(pc = "run_stage" /\ phase_index < Len(CurStage.phases)
        /\ CurPhase.plugin \notin config.loaded_plugins) =>
       /\ pc' = "rejected"
       /\ exc' = "ValueError"
       /\ UNCHANGED <<story_data, current_stage_index, current_phase_index, ephemeral,
                      llm_calls>>]_vars

\* ------------------------------------- stages listed out of their `order`
\* a stages section that lists the stage of order 3 before the stage of
\* order 1, next to the one that lists them in ascending order; one setting
\* of the repair and retry options
ConfigsListed ==
  LET one == {d \in Configs : /\ d.plugin_configs["json"].repair
                              /\ d.plugin_configs["json"].retry
                              /\ d.plugin_configs["json"].default_schema = None
                              /\ d.plugin_configs["text"].default_schema = None
                              /\ d.max_retries = MaxRetriesBound
                              /\ d.pass_schema}
  IN one \cup {[c EXCEPT !.stages = <<ConfiguredStages[3], ConfiguredStages[2],
                                      ConfiguredStages[1]>>] : c \in one}

InitListed ==
  /\ config \in ConfigsListed
  /\ Constructed

SpecListed == InitListed /\ [][Next]_vars

\* the stages that have been entered in the current run: the one being run
\* and those with a phase that was started
StagesEntered ==
  {i \in 1..Len(stages) :
     \/ (pc \notin {"batch_idle", "batch_done", "run_pipeline"} /\ batch_runs > 0
           /\ i = stage_index + 1)
     \/ \E j \in 1..Len(stages[i].phases) :
          milestones[<<stages[i].name, stages[i].phases[j].name>>] # {}}

\* C25 as stated: run_pipeline executes exactly the enabled stages, each at
\* most once per run, in ascending `order`; a disabled stage is never
\* executed, and within a stage the phases run in list order.  Checked here:
\* only enabled stages are entered, no stage is entered while a stage of
\* higher `order` has already been entered, and a phase is started only when
\* the phases listed before it in its stage have completed.
C25_EnabledStagesInAscendingOrder ==
  /\ \A i \in StagesEntered : stages[i].enabled
  /\ (pc \in {"run_stage", "generate", "process", "repair", "retry", "processed"}) =>
       \A i \in StagesEntered : stages[i].order <= CurStage.order
  /\ \A i \in 1..Len(stages) : \A j \in 1..Len(stages[i].phases) :
       milestones[<<stages[i].name, stages[i].phases[j].name>>] # {} =>
         \A k \in 1..(j - 1) : Completed(<<stages[i].name, stages[i].phases[k].name>>)

\* -------------------------------------------------- process_content_batch
\* Largest number of packets given to process_content_batch.
MaxPackets == 3

\* how process_content ends for one packet: it returns (packet, True) or
\* (packet, False), or it raises
TaskReturns == {"success", "returned_false"}
TaskRaises == {"ContentProcessingError", "RuntimeError", "StorageError"}

\* the tasks asyncio.gather has been given have all finished
AllFinished(tasks) == \A i \in DOMAIN tasks : tasks[i].state = "finished"

\* a gather that keeps each task's outcome, exception or not, in its result
\* list (return_exceptions=True)
gather_on_task_done_isolating(g, tasks, outcome) ==
  IF g.future # "pending" THEN g
  ELSE IF AllFinished(tasks)
       THEN [g EXCEPT !.future = "result",
                      !.results = [i \in DOMAIN tasks |-> tasks[i].outcome]]
       ELSE g

\* asyncio.gather(*coroutines), its callback when one task ends: the first
\* exception of a task becomes the exception of the gathered future at once;
\* the result list, in the order of the arguments, is set when every task
\* has returned; the other tasks are not cancelled
gather_on_task_done(g, tasks, outcome) ==
  IF g.future # "pending" THEN g
  ELSE IF outcome \in TaskRaises
       THEN [g EXCEPT !.future = "exception", !.exception = outcome]
       ELSE IF AllFinished(tasks)
            THEN [g EXCEPT !.future = "result",
                           !.results = [i \in DOMAIN tasks |-> tasks[i].outcome]]
            ELSE g

\* StorytellerContentProcessor.process_content_batch(content_packets): one
\* process_content coroutine per packet is handed to asyncio.gather, and the
\* call awaits the gathered future (already resolved for an empty list)
ProcessContentBatch ==
  /\ pc = "batch_idle"
  /\ batch_runs = 0
  /\ gather.call = "not_called"
  /\ \E n \in 0..MaxPackets :
       gather' = [call |-> "awaiting",
                  tasks |-> [i \in 1..n |-> [state |-> "pending", outcome |-> "none"]],
                  finished |-> << >>,
                  future |-> IF n = 0 THEN "result" ELSE "pending",
                  exception |-> "none",
                  results |-> << >>]
  /\ UNCHANGED <<config, storage_vars, plugin_call, lookup, current_schema, pc, batch_runs, stage_index, phase_index,
                 current_stage_index, current_phase_index, story_data, prompt,
                 content_packet, retry_count, cp_outcome, exc, ephemeral, batch, llm_calls,
                 validations, fault, milestones>>

\* the event loop runs one packet's process_content up to its first await
\* (a model call or a storage write)
TaskStart ==
  /\ gather.call # "not_called"
  /\ \E i \in DOMAIN gather.tasks :
       /\ gather.tasks[i].state = "pending"
       /\ gather' = [gather EXCEPT !.tasks[i].state = "awaiting"]
  /\ UNCHANGED <<config, storage_vars, plugin_call, lookup, current_schema, pc, batch_runs, stage_index, phase_index,
                 current_stage_index, current_phase_index, story_data, prompt,
                 content_packet, retry_count, cp_outcome, exc, ephemeral, batch, llm_calls,
                 validations, fault, milestones>>

\* one packet's process_content ends, in whatever order the awaited calls
\* complete, and the gathered future is told
TaskFinish ==
  /\ gather.call # "not_called"
  /\ \E i \in DOMAIN gather.tasks, outcome \in TaskReturns \cup TaskRaises :
       /\ gather.tasks[i].state = "awaiting"
       /\ LET tasks == [gather.tasks EXCEPT ![i] = [state |-> "finished",
                                                    outcome |-> outcome]]
              g == [gather EXCEPT !.tasks = tasks, !.finished = Append(@, i)]
          IN gather' = gather_on_task_done(g, tasks, outcome)
  /\ UNCHANGED <<config, storage_vars, plugin_call, lookup, current_schema, pc, batch_runs, stage_index, phase_index,
                 current_stage_index, current_phase_index, story_data, prompt,
                 content_packet, retry_count, cp_outcome, exc, ephemeral, batch, llm_calls,
                 validations, fault, milestones>>

\* process_content_batch resumes from its await: it raises the exception of
\* the gathered future or returns its result list
BatchCallResume ==
  /\ gather.call = "awaiting"
  /\ gather.future # "pending"
  /\ gather' = [gather EXCEPT !.call = IF gather.future = "exception" THEN "raised"
                                       ELSE "returned"]
  /\ UNCHANGED <<config, storage_vars, plugin_call, lookup, current_schema, pc, batch_runs, stage_index, phase_index,
                 current_stage_index, current_phase_index, story_data, prompt,
                 content_packet, retry_count, cp_outcome, exc, ephemeral, batch, llm_calls,
                 validations, fault, milestones>>

NextGather ==
  \/ ProcessContentBatch
  \/ TaskStart
  \/ TaskFinish
  \/ BatchCallResume

\* the fan-out reads nothing of the configuration: one configuration
InitGather ==
  /\ config = CHOOSE c \in Configs : TRUE
  /\ Constructed

SpecGather == InitGather /\ [][NextGather]_vars

\* the tasks that raised, in the order they ended
RaisedInOrder == SelectSeq(gather.finished, LAMBDA i : gather.tasks[i].outcome \in TaskRaises)

\* C26: process_content_batch processes the packets concurrently, in no
\* guaranteed completion order; if the processing of any packet raises, the
\* call raises that error (the first one raised) and reports no result for
\* any packet; it returns results, one per packet in the order given, only
\* when no packet raised.
C26_BatchAllOrNothing ==
  /\ gather.future = "exception" <=> RaisedInOrder # << >>
  /\ RaisedInOrder # << >> =>
       /\ gather.exception = gather.tasks[RaisedInOrder[1]].outcome
       /\ gather.results = << >>
       /\ gather.call # "returned"
  /\ gather.call = "raised" => gather.future = "exception"
  /\ gather.call = "returned" =>
       /\ AllFinished(gather.tasks)
       /\ Len(gather.results) = Len(gather.tasks)
       /\ \A i \in DOMAIN gather.tasks :
            gather.results[i] = gather.tasks[i].outcome /\ gather.results[i] \in TaskReturns

\* C26 witness: of three packets the third ended first, successfully, then
\* the second raised while the first is still being processed; the call has
\* raised the second's error and reports nothing for the third
C26_Witness ==
  /\ gather.call = "raised"
  /\ Len(gather.tasks) = 3
  /\ gather.finished = <<3, 2>>
  /\ gather.tasks[3].outcome = "success"
  /\ gather.tasks[1].state = "awaiting"
  /\ gather.exception = "StorageError"
  /\ gather.results = << >>

\* ------------------------------------------- output plugins called directly
\* how often process is applied to what it returned
MaxProcessCalls == 2

\* the strings handed to a plugin: what a model may answer, and a document
\* that embeds the tags
PluginInputs == {Raw(k) : k \in RawKinds \cup {EmbeddingKind}}

\* the schema argument of validate_content: absent, or a schema text
SchemaInputs == {None, Some("phase_schema")}

\* a plugin is taken from the plugin manager and a string is at hand
PluginTakeContent ==
  /\ pc = "batch_idle"
  /\ batch_runs = 0
  /\ plugin_call.plugin = "none"
  /\ \E plugin \in config.loaded_plugins, x \in PluginInputs :
       plugin_call' = [NoPluginCall EXCEPT !.plugin = plugin, !.input = x]
  /\ UNCHANGED <<config, storage_vars, lookup, current_schema, gather, pc, batch_runs, stage_index, phase_index,
                 current_stage_index, current_phase_index, story_data, prompt,
                 content_packet, retry_count, cp_outcome, exc, ephemeral, batch, llm_calls,
                 validations, fault, milestones>>

\* the content the next plugin call is given: the input, or what the last
\* process returned
HeldContent ==
  IF plugin_call.outputs = << >> THEN plugin_call.input
  ELSE plugin_call.outputs[Len(plugin_call.outputs)].content

\* <plugin>.process(content), on the input and then on its own result; a
\* call that raised ValueError ends the sequence
PluginProcess ==
  /\ plugin_call.plugin # "none"
  /\ Len(plugin_call.outputs) < MaxProcessCalls
  /\ plugin_call.outputs # << >> => plugin_call.outputs[Len(plugin_call.outputs)].ok
  /\ plugin_call' = [plugin_call EXCEPT
                       !.outputs = Append(@, process(plugin_call.plugin, HeldContent))]
  /\ UNCHANGED <<config, storage_vars, lookup, current_schema, gather, pc, batch_runs, stage_index, phase_index,
                 current_stage_index, current_phase_index, story_data, prompt,
                 content_packet, retry_count, cp_outcome, exc, ephemeral, batch, llm_calls,
                 validations, fault, milestones>>

\* <plugin>.validate_content(content, schema)
PluginValidateContent ==
  /\ plugin_call.plugin # "none"
  /\ plugin_call.verdict = "none"
  /\ \E schema \in SchemaInputs :
       plugin_call' = [plugin_call EXCEPT
                         !.schema = schema,
                         !.verdict = validate_content(plugin_call.plugin, HeldContent, schema)]
  /\ UNCHANGED <<config, storage_vars, lookup, current_schema, gather, pc, batch_runs, stage_index, phase_index,
                 current_stage_index, current_phase_index, story_data, prompt,
                 content_packet, retry_count, cp_outcome, exc, ephemeral, batch, llm_calls,
                 validations, fault, milestones>>

NextPlugin ==
  \/ PluginTakeContent
  \/ PluginProcess
  \/ PluginValidateContent

\* the plugins read nothing of the pipeline's configuration: one configuration
InitPlugin ==
  /\ config = CHOOSE c \in Configs : TRUE
  /\ Constructed

SpecPlugin == InitPlugin /\ [][NextPlugin]_vars

\* C27 as stated: for every shipped format plugin (json, text, list, subtext)
\* and every content value, validate_content called with an absent schema
\* returns true.
C27_AbsentSchemaValidatesTrue ==
  (plugin_call.verdict # "none" /\ plugin_call.schema = None) =>
     plugin_call.verdict = "true"

\* C28 as stated: for every shipped format plugin and every well-formed
\* input x (one that process accepts), process(process(x)) equals
\* process(x).
C28_ProcessIdempotent ==
  (Len(plugin_call.outputs) = 2 /\ plugin_call.outputs[1].ok) =>
     plugin_call.outputs[2] = plugin_call.outputs[1]

\* ------------------------------------------ the registry's lookups called
\* a holder of the stage manager calls a lookup with any index or name
LookupGetStage ==
  /\ TrackerInUse
  /\ \E si \in IndexInputs :
       lookup' = [method |-> "get_stage", args |-> <<si>>] @@ get_stage(si)
  /\ UNCHANGED <<config, storage_vars, plugin_call, current_schema, gather, pc, batch_runs, stage_index,
                 phase_index, current_stage_index, current_phase_index, story_data, prompt,
                 content_packet, retry_count, cp_outcome, exc, ephemeral, batch, llm_calls,
                 validations, fault, milestones>>

LookupGetPhase ==
  /\ TrackerInUse
  /\ \E si \in IndexInputs, pi \in IndexInputs :
       lookup' = [method |-> "get_phase", args |-> <<si, pi>>] @@ get_phase_call(si, pi)
  /\ UNCHANGED <<config, storage_vars, plugin_call, current_schema, gather, pc, batch_runs, stage_index,
                 phase_index, current_stage_index, current_phase_index, story_data, prompt,
                 content_packet, retry_count, cp_outcome, exc, ephemeral, batch, llm_calls,
                 validations, fault, milestones>>

LookupGetStageIndexByName ==
  /\ TrackerInUse
  /\ \E stage_name \in StageNameInputs :
       lookup' = [method |-> "get_stage_index_by_name", args |-> <<stage_name>>]
                   @@ get_stage_index_by_name_call(stage_name)
  /\ UNCHANGED <<config, storage_vars, plugin_call, current_schema, gather, pc, batch_runs, stage_index,
                 phase_index, current_stage_index, current_phase_index, story_data, prompt,
                 content_packet, retry_count, cp_outcome, exc, ephemeral, batch, llm_calls,
                 validations, fault, milestones>>

LookupGetPhaseIndexByName ==
  /\ TrackerInUse
  /\ \E stage_name \in StageNameInputs, phase_name \in PhaseNameInputs :
       lookup' = [method |-> "get_phase_index_by_name", args |-> <<stage_name, phase_name>>]
                   @@ get_phase_index_by_name_call(stage_name, phase_name)
  /\ UNCHANGED <<config, storage_vars, plugin_call, current_schema, gather, pc, batch_runs, stage_index,
                 phase_index, current_stage_index, current_phase_index, story_data, prompt,
                 content_packet, retry_count, cp_outcome, exc, ephemeral, batch, llm_calls,
                 validations, fault, milestones>>

LookupGetStageByName ==
  /\ TrackerInUse
  /\ \E stage_name \in StageNameInputs :
       lookup' = [method |-> "get_stage_by_name", args |-> <<stage_name>>]
                   @@ get_stage_by_name(stage_name)
  /\ UNCHANGED <<config, storage_vars, plugin_call, current_schema, gather, pc, batch_runs, stage_index,
                 phase_index, current_stage_index, current_phase_index, story_data, prompt,
                 content_packet, retry_count, cp_outcome, exc, ephemeral, batch, llm_calls,
                 validations, fault, milestones>>

NextLookup ==
  \/ LookupGetStage
  \/ LookupGetPhase
  \/ LookupGetStageIndexByName
  \/ LookupGetPhaseIndexByName
  \/ LookupGetStageByName

\* the registries of the tracker's exploration
SpecLookup == InitTracker /\ [][NextLookup]_vars

\* the stage index given is no index of the registry
StageIndexOutOfRange(si) == si < 0 \/ si >= Len(stages)

\* the name given is the name of no stage of the registry
StageNameUnknown(stage_name) == \A i \in 1..Len(stages) : stages[i].name # stage_name

\* what the last lookup asked for is not in the registry
LookupNotFound ==
  CASE lookup.method = "get_stage" -> StageIndexOutOfRange(lookup.args[1])
    [] lookup.method = "get_phase" ->
         \/ StageIndexOutOfRange(lookup.args[1])
         \/ lookup.args[2] < 0
         \/ lookup.args[2] >= Len(stages[lookup.args[1] + 1].phases)
    [] lookup.method \in {"get_stage_index_by_name", "get_stage_by_name"} ->
         StageNameUnknown(lookup.args[1])
    [] lookup.method = "get_phase_index_by_name" ->
         \/ StageNameUnknown(lookup.args[1])
         \/ \A i \in 1..Len(stages) :
              stages[i].name = lookup.args[1] =>
                \A j \in 1..Len(stages[i].phases) : stages[i].phases[j].name # lookup.args[2]
    [] OTHER -> FALSE

\* C29 as stated: get_stage, get_phase, get_stage_by_name,
\* get_stage_index_by_name and get_phase_index_by_name each raise a not-found
\* error for an out-of-range index or an unknown name; none of them returns a
\* sentinel such as None.
C29_EveryLookupRaises ==
  LookupNotFound => lookup.error \in {"IndexError", "ValueError"}

\* C29 amended: for an out-of-range index get_phase raises IndexError, for
\* an unknown name get_stage_index_by_name and get_phase_index_by_name raise
\* ValueError; get_stage and get_stage_by_name raise nothing and return None
\* for what is not found.  Every lookup returns the entry, never None, for
\* what is found.
C29_LookupsRaiseOrReturnNone ==
  /\ LookupNotFound =>
       CASE lookup.method = "get_phase" -> lookup.error = "IndexError"
         [] lookup.method \in {"get_stage_index_by_name", "get_phase_index_by_name"} ->
              lookup.error = "ValueError"
         [] OTHER -> lookup.error = "none" /\ lookup.value = None
  /\ (lookup.method # "none" /\ ~LookupNotFound) =>
       lookup.error = "none" /\ lookup.value # None

\* C29 witness: get_stage was called with the index one past the last stage
\* and returned None
C29_Witness ==
  /\ lookup.method = "get_stage"
  /\ lookup.args = <<Len(stages)>>
  /\ Len(stages) > 0
  /\ lookup.error = "none"
  /\ lookup.value = None

\* -------------------------------------------------- the effective schema
\* the effective schema of the phase in execution, read off the
\* configuration: the phase's own schema, else its plugin's default schema
EffectiveSchema ==
  IF CurPhase.schema # None THEN CurPhase.schema
  ELSE config.plugin_configs[CurPhase.plugin].default_schema

MaxClock == 2

\* the batch ids create_batch_run is called with
BatchIds == 1..MaxBatchSize

\* the packets handed to save_content: one that passes
\* validate_content_packet and one whose content is blank; all have the same
\* file name
PacketInputs == {"valid", "blank"}

\* a coroutine that is not inside a method may call one
CanCall(c) == callers[c].at \in {"idle", "done"}

\* the call of coroutine c has ended with this result
Done(op, arg, result) ==
  [op |-> op, at |-> "done", arg |-> arg, path |-> None, result |-> result]

\* asyncio.Lock: `async with self._lock` goes on at once when the lock is
\* free, and waits otherwise
LockFree(storage) == storage.lock = 0

BatchPipelineUnchanged == UNCHANGED <<pipeline_vars, writer, ephemeral_storage, retry_loop>>

\* the clock moves on
Tick ==
  /\ batch_storage.now < MaxClock
  /\ batch_storage' = [batch_storage EXCEPT !.now = @ + 1]
  /\ UNCHANGED callers
  /\ BatchPipelineUnchanged

\* a start_new_batch that selects a new folder and forgets the batch run
\* whenever it is called
start_new_batch_always(storage, c) ==
  [storage EXCEPT !.current_datetime_folder = Some(storage.now),
                  !.current_batch_run_folder = None,
                  !.lock = c]

\* StorytellerBatchStorage.start_new_batch, up to its await: with the lock,
\* when no datetime folder is selected, the folder of the current time is
\* selected and the batch run folder is reset; when one is selected already
\* nothing changes
start_new_batch(storage, c) ==
  IF storage.current_datetime_folder = None
  THEN [storage EXCEPT !.current_datetime_folder = Some(storage.now),
                       !.current_batch_run_folder = None,
                       !.lock = c]
  ELSE storage

\* start_new_batch is called: it returns at once ("Using existing batch"),
\* or awaits the mkdir of the folder it selected, holding the lock
CallStartNewBatch(c) ==
  /\ CanCall(c)
  /\ LockFree(batch_storage)
  /\ batch_storage' = start_new_batch(batch_storage, c)
  /\ callers' = [callers EXCEPT ![c] =
                   IF batch_storage'.lock = c
                   THEN [op |-> "start_new_batch", at |-> "mkdir", arg |-> "none",
                         path |-> Some(<<batch_storage'.current_datetime_folder[1]>>),
                         result |-> "none"]
                   ELSE Done("start_new_batch", "none", "returned")]
  /\ BatchPipelineUnchanged

\* the mkdir of start_new_batch or create_batch_run ends: the directory
\* exists, or OSError becomes StorytellerStorageError; the lock is released
MkdirEnds(c) ==
  /\ callers[c].at = "mkdir"
  /\ \E ok \in BOOLEAN :
       /\ batch_storage' = [batch_storage EXCEPT
                              !.dirs = IF ok THEN @ \cup {callers[c].path[1]} ELSE @,
                              !.lock = 0]
       /\ callers' = [callers EXCEPT ![c] =
                        Done(callers[c].op, callers[c].arg,
                             IF ok THEN "returned" ELSE "StorytellerStorageError")]
  /\ BatchPipelineUnchanged

\* a create_batch_run that does not look whether a batch was started
create_batch_run_unchecked(storage, batch_id, c) ==
  [ok |-> TRUE,
   storage |-> [storage EXCEPT
                  !.current_batch_run_folder =
                     Some(<<IF storage.current_datetime_folder = None THEN 0
                            ELSE storage.current_datetime_folder[1], batch_id>>),
                  !.lock = c]]

\* StorytellerBatchStorage.create_batch_run(batch_id), up to its await: with
\* the lock, ValueError when no datetime folder is selected; else the batch
\* run folder is set
create_batch_run(storage, batch_id, c) ==
  IF storage.current_datetime_folder = None
  THEN [ok |-> FALSE, storage |-> storage]
  ELSE [ok |-> TRUE,
        storage |-> [storage EXCEPT
                       !.current_batch_run_folder =
                          Some(<<storage.current_datetime_folder[1], batch_id>>),
                       !.lock = c]]

CallCreateBatchRun(c) ==
  /\ CanCall(c)
  /\ LockFree(batch_storage)
  /\ \E batch_id \in BatchIds :
       LET r == create_batch_run(batch_storage, batch_id, c)
       IN /\ batch_storage' = r.storage
          /\ callers' = [callers EXCEPT ![c] =
                           IF r.ok
                           THEN [op |-> "create_batch_run", at |-> "mkdir", arg |-> batch_id,
                                 path |-> r.storage.current_batch_run_folder,
                                 result |-> "none"]
                           ELSE Done("create_batch_run", batch_id, "ValueError")]
  /\ BatchPipelineUnchanged

\* StorytellerBatchStorage.validate_content_packet
validate_content_packet(packet) == packet # "blank"

\* StorytellerBatchStorage.save_content(packet), up to its first await: the
\* packet is validated, then, with the lock, StorytellerBatchRunError when no
\* batch run folder is set; else the file path is taken from the pointer and
\* the atomic writer is entered
CallSaveContent(c) ==
  /\ CanCall(c)
  /\ \E packet \in PacketInputs :
       IF ~validate_content_packet(packet)
       THEN /\ callers' = [callers EXCEPT ![c] =
                             Done("save_content", packet, "StorytellerStorageValidationError")]
            /\ UNCHANGED batch_storage
       ELSE /\ LockFree(batch_storage)
            /\ IF batch_storage.current_batch_run_folder = None
               THEN /\ callers' = [callers EXCEPT ![c] =
                                     Done("save_content", packet, "StorytellerBatchRunError")]
                    /\ UNCHANGED batch_storage
               ELSE /\ callers' = [callers EXCEPT ![c] =
                                     [op |-> "save_content", at |-> "writing", arg |-> packet,
                                      path |-> batch_storage.current_batch_run_folder,
                                      result |-> "none"]]
                    /\ batch_storage' = [batch_storage EXCEPT !.lock = c]
  /\ BatchPipelineUnchanged

\* the atomic writer of save_content ends: the file is in the folder, or
\* OSError becomes StorytellerStorageError (also when the folder was never
\* created); the lock is released
SaveContentEnds(c) ==
  /\ callers[c].at = "writing"
  /\ \E ok \in BOOLEAN :
       LET written == ok /\ callers[c].path[1] \in batch_storage.dirs
       IN /\ batch_storage' = [batch_storage EXCEPT
                                 !.files = IF written THEN @ \cup {callers[c].path[1]} ELSE @,
                                 !.lock = 0]
          /\ callers' = [callers EXCEPT ![c] =
                           Done("save_content", callers[c].arg,
                                IF written THEN "returned" ELSE "StorytellerStorageError")]
  /\ BatchPipelineUnchanged

\* StorytellerBatchStorage.load_content(packet), up to its first await
CallLoadContent(c) ==
  /\ CanCall(c)
  /\ LockFree(batch_storage)
  /\ IF batch_storage.current_batch_run_folder = None
     THEN /\ callers' = [callers EXCEPT ![c] =
                           Done("load_content", "valid", "StorytellerBatchRunError")]
          /\ UNCHANGED batch_storage
     ELSE /\ callers' = [callers EXCEPT ![c] =
                           [op |-> "load_content", at |-> "reading", arg |-> "valid",
                            path |-> batch_storage.current_batch_run_folder,
                            result |-> "none"]]
          /\ batch_storage' = [batch_storage EXCEPT !.lock = c]
  /\ BatchPipelineUnchanged

\* the read of load_content ends; the lock is released
LoadContentEnds(c) ==
  /\ callers[c].at = "reading"
  /\ batch_storage' = [batch_storage EXCEPT !.lock = 0]
  /\ callers' = [callers EXCEPT ![c] =
                   Done("load_content", callers[c].arg,
                        IF callers[c].path[1] \in batch_storage.files THEN "returned"
                        ELSE "StorytellerStorageNotFoundError")]
  /\ BatchPipelineUnchanged

\* StorytellerBatchStorage.content_exists and remove_content, up to their
\* first await: without the lock, StorytellerBatchRunError when no batch run
\* folder is set; else the file path is taken from the pointer and
\* file_path.exists runs in a thread
CallUnlocked(c) ==
  /\ CanCall(c)
  /\ \E op \in {"content_exists", "remove_content"} :
       callers' = [callers EXCEPT ![c] =
                     IF batch_storage.current_batch_run_folder = None
                     THEN Done(op, "valid", "StorytellerBatchRunError")
                     ELSE [op |-> op, at |-> "exists", arg |-> "valid",
                           path |-> batch_storage.current_batch_run_folder,
                           result |-> "none"]]
  /\ UNCHANGED batch_storage
  /\ BatchPipelineUnchanged

\* file_path.exists answers: content_exists returns the answer;
\* remove_content raises StorytellerStorageNotFoundError or goes on to remove
ExistsAnswers(c) ==
  /\ callers[c].at = "exists"
  /\ LET there == callers[c].path[1] \in batch_storage.files
     IN callers' = [callers EXCEPT ![c] =
                      IF callers[c].op = "content_exists"
                      THEN Done("content_exists", callers[c].arg,
                                IF there THEN "true" ELSE "false")
                      ELSE IF there THEN [callers[c] EXCEPT !.at = "removing"]
                      ELSE Done("remove_content", callers[c].arg,
                                "StorytellerStorageNotFoundError")]
  /\ UNCHANGED batch_storage
  /\ BatchPipelineUnchanged

\* the remove of remove_content ends
RemoveEnds(c) ==
  /\ callers[c].at = "removing"
  /\ batch_storage' = [batch_storage EXCEPT !.files = @ \ {callers[c].path[1]}]
  /\ callers' = [callers EXCEPT ![c] =
                   Done("remove_content", callers[c].arg,
                        IF callers[c].path[1] \in batch_storage.files THEN "returned"
                        ELSE "StorytellerStorageError")]
  /\ BatchPipelineUnchanged

NextBatchStorage ==
  \/ Tick
  \/ \E c \in 1..NumCallers : CallStartNewBatch(c)
  \/ \E c \in 1..NumCallers : MkdirEnds(c)
  \/ \E c \in 1..NumCallers : CallCreateBatchRun(c)
  \/ \E c \in 1..NumCallers : CallSaveContent(c)
  \/ \E c \in 1..NumCallers : SaveContentEnds(c)
  \/ \E c \in 1..NumCallers : CallLoadContent(c)
  \/ \E c \in 1..NumCallers : LoadContentEnds(c)
  \/ \E c \in 1..NumCallers : CallUnlocked(c)
  \/ \E c \in 1..NumCallers : ExistsAnswers(c)
  \/ \E c \in 1..NumCallers : RemoveEnds(c)

\* the storage reads nothing of the pipeline's configuration: one configuration
InitBatchStorage ==
  /\ config = CHOOSE c \in Configs : TRUE
  /\ Constructed

SpecBatchStorage == InitBatchStorage /\ [][NextBatchStorage]_vars

\* coroutine c is inside start_new_batch or create_batch_run: the pointer is
\* moved and the folder is not made yet
InFolderTransition(c) ==
  callers[c].op \in {"start_new_batch", "create_batch_run"} /\ callers[c].at = "mkdir"

\* coroutine c is inside a save, a load, a remove or an existence check
InFileOperation(c) == callers[c].at \in {"writing", "reading", "exists", "removing"}

\* C31 as stated: the folder-state transitions and the read/modify/write
\* sequences of the batch tier are mutually exclusive: no save, load, remove
\* or existence check overlaps a start_new_batch or create_batch_run, and no
\* operation works on a folder pointer whose transition is still under way.
C31_FolderTransitionsExclusive ==
  \A a \in 1..NumCallers, b \in 1..NumCallers :
    (InFolderTransition(a) /\ InFileOperation(b)) =>
       /\ a = b
       /\ callers[b].path # callers[a].path

\* coroutine c makes a call of the method op in this step
CallerCalls(c, op) ==
  /\ CanCall(c)
  /\ callers'[c] # callers[c]
  /\ callers'[c].op = op

C35_EveryCallStartsNewBatch ==
  [][\A c \in 1..NumCallers :
       CallerCalls(c, "start_new_batch") =>
         /\ batch_storage'.current_datetime_folder = Some(batch_storage.now)
         /\ batch_storage'.current_batch_run_folder = None]_vars

\* ------------------------------------------------- the atomic file writer
\* how many saves are followed
MaxSaves == 2

WriterPipelineUnchanged ==
  UNCHANGED <<pipeline_vars, batch_storage, callers, ephemeral_storage, retry_loop>>

\* StorytellerEphemeralStorage.save_content, its except clause: an OSError
\* becomes StorytellerStorageError, anything else leaves as it is
SaveContentCatch(e) == IF e = "OSError" THEN "StorytellerStorageError" ELSE e

\* save_content enters the atomic writer (__aenter__): the temporary file is
\* opened for writing, which creates it empty; an OSError of the open ends
\* the save
SaveEnter ==
  /\ writer.at \in {"none", "done"}
  /\ writer.saves < MaxSaves
  /\ \E f \in FileNames, open_ok \in BOOLEAN :
       writer' =
         IF open_ok
         THEN [writer EXCEPT !.at = "entered", !.file = f, !.version = writer.saves + 1,
                             !.before = writer.disk[f].target, !.raised = "none",
                             !.result = "none", !.saves = @ + 1,
                             !.disk[f].temp = "partial"]
         ELSE [writer EXCEPT !.at = "done", !.file = f, !.version = writer.saves + 1,
                             !.before = writer.disk[f].target, !.raised = "OSError",
                             !.result = SaveContentCatch("OSError"), !.saves = @ + 1]
  /\ WriterPipelineUnchanged

\* the body of the with block, `await f.write(content)`: the text goes to the
\* file object's buffer, or the call raises (OSError, or TypeError for a
\* content that is no string)
SaveWrite ==
  /\ writer.at = "entered"
  /\ \E outcome \in {"ok", "OSError", "TypeError"} :
       writer' = IF outcome = "ok" THEN [writer EXCEPT !.at = "written"]
                 ELSE [writer EXCEPT !.at = "body_raised", !.raised = outcome]
  /\ WriterPipelineUnchanged

\* an __aexit__ that removes the temporary file whenever the with block does
\* not end with the rename
aexit_cleaning(w, flush_ok, rename_ok, unlink_ok) ==
  IF flush_ok /\ w.at = "written" /\ rename_ok
  THEN [w EXCEPT !.at = "done", !.result = "returned",
                 !.disk[w.file] = [target |-> w.version, temp |-> "absent"]]
  ELSE [w EXCEPT !.at = "done",
                 !.result = SaveContentCatch(IF w.at = "written" \/ ~flush_ok THEN "OSError"
                                             ELSE w.raised),
                 !.disk[w.file].temp = "absent"]

\* StorytellerAtomicFileWriter.__aexit__: flush and close; then, when the
\* body raised nothing, the temporary file is renamed onto the target, else
\* it is unlinked.  An OSError of flush, close, rename or unlink leaves
\* __aexit__ at once.
aexit(w, flush_ok, rename_ok, unlink_ok) ==
  IF ~flush_ok
  THEN [w EXCEPT !.at = "done", !.result = SaveContentCatch("OSError")]
  ELSE IF w.at = "written"
       THEN IF rename_ok
            THEN [w EXCEPT !.at = "done", !.result = "returned",
                           !.disk[w.file] = [target |-> w.version, temp |-> "absent"]]
            ELSE [w EXCEPT !.at = "done", !.result = SaveContentCatch("OSError"),
                           !.disk[w.file].temp = "complete"]
       ELSE IF unlink_ok
            THEN [w EXCEPT !.at = "done", !.result = SaveContentCatch(w.raised),
                           !.disk[w.file].temp = "absent"]
            ELSE [w EXCEPT !.at = "done", !.result = SaveContentCatch("OSError")]

\* the with block is left
SaveExit ==
  /\ writer.at \in {"written", "body_raised"}
  /\ \E flush_ok \in BOOLEAN, rename_ok \in BOOLEAN, unlink_ok \in BOOLEAN :
       writer' = aexit(writer, flush_ok, rename_ok, unlink_ok)
  /\ WriterPipelineUnchanged

\* the process dies inside the with block
SaveCrash ==
  /\ writer.at \in {"entered", "written", "body_raised"}
  /\ writer' = [writer EXCEPT !.at = "crashed"]
  /\ WriterPipelineUnchanged

NextWriter ==
  \/ SaveEnter
  \/ SaveWrite
  \/ SaveExit
  \/ SaveCrash

InitWriter ==
  /\ config = CHOOSE c \in Configs : TRUE
  /\ Constructed

SpecWriter == InitWriter /\ [][NextWriter]_vars

\* C32 as stated: a save writes the content to a temporary file and renames
\* it onto the target only after the write completed without error: at every
\* instant, a crash or an error in mid-write included, the target is absent,
\* the complete previous content or the complete new content, and a failed
\* write leaves the target unchanged and removes the temporary file.
C32_AtomicSave ==
  /\ \A f \in FileNames : writer.disk[f].target \in 0..MaxSaves
  /\ writer.at # "none" =>
       writer.disk[writer.file].target \in {writer.before, writer.version}
  /\ (writer.at # "none" /\ writer.disk[writer.file].target = writer.version) =>
       (writer.at = "done" /\ writer.result = "returned")
  /\ (writer.at = "done" /\ writer.result # "returned") =>
       /\ writer.disk[writer.file].target = writer.before
       /\ writer.disk[writer.file].temp = "absent"

\* --------------------------------------------------------- the retry loops
\* the largest max_retries followed (retry_operation's default is 3; the
\* adapter's max_retries is validated as a positive integer)
MaxRetriesInput == 3

RetryLoops == {"retry_operation", "_retry_with_backoff"}

\* what one invocation of the operation does: a result, or an exception
InvocationOutcomes ==
  {"ok", "StorytellerStorageError", "StorytellerBatchRunError", "ResourceExhausted",
   "ResponseValidationError", "GoogleAPICallError", "RuntimeError", "ValueError"}

\* the except clauses of the two loops (StorytellerBatchRunError is a
\* StorytellerStorageError)
Retryable(loop) ==
  IF loop = "retry_operation"
  THEN {"StorytellerStorageError", "StorytellerBatchRunError"}
  ELSE {"ResourceExhausted", "ResponseValidationError", "GoogleAPICallError", "RuntimeError"}

RetryPipelineUnchanged ==
  UNCHANGED <<pipeline_vars, batch_storage, callers, writer, ephemeral_storage>>

RECURSIVE Pow2(_)
Pow2(n) == IF n = 0 THEN 1 ELSE 2 * Pow2(n - 1)

\* a loop that sleeps and tries again after every error it catches
retry_operation_unbounded(loop, outcome) ==
  IF outcome = "ok"
  THEN [loop EXCEPT !.at = "done", !.invocations = @ + 1, !.result = "returned"]
  ELSE IF outcome \notin Retryable(loop.loop)
       THEN [loop EXCEPT !.at = "done", !.invocations = @ + 1, !.result = "raised",
                         !.error = outcome]
       ELSE [loop EXCEPT !.at = "sleeping", !.invocations = @ + 1, !.failures = @ + 1,
                         !.error = outcome, !.delay = 1]

\* retry_operation, one pass of `for attempt in range(max_retries)`: the
\* result is returned; a StorytellerStorageError is raised again on the last
\* attempt and logged and slept on (2 ** attempt seconds) before; any other
\* exception leaves the loop
retry_operation(loop, outcome) ==
  IF outcome = "ok"
  THEN [loop EXCEPT !.at = "done", !.invocations = @ + 1, !.result = "returned"]
  ELSE IF outcome \notin Retryable(loop.loop)
       THEN [loop EXCEPT !.at = "done", !.invocations = @ + 1, !.result = "raised",
                         !.error = outcome]
       ELSE IF loop.attempt = loop.max_retries - 1
            THEN [loop EXCEPT !.at = "done", !.invocations = @ + 1, !.failures = @ + 1,
                              !.result = "raised", !.error = outcome]
            ELSE [loop EXCEPT !.at = "sleeping", !.invocations = @ + 1, !.failures = @ + 1,
                              !.error = outcome, !.delay = Pow2(loop.attempt)]

\* GeminiAdapter._retry_with_backoff, one pass of
\* `while retries < self.max_retries`: the result is returned; after
\* ResourceExhausted, ResponseValidationError, GoogleAPICallError or
\* RuntimeError the error is logged and retries is incremented, and the loop
\* sleeps retry_delay or, with no retry left, raises RuntimeError; any other
\* exception leaves the loop
retry_with_backoff(loop, outcome) ==
  IF outcome = "ok"
  THEN [loop EXCEPT !.at = "done", !.invocations = @ + 1, !.result = "returned"]
  ELSE IF outcome \notin Retryable(loop.loop)
       THEN [loop EXCEPT !.at = "done", !.invocations = @ + 1, !.result = "raised",
                         !.error = outcome]
       ELSE IF loop.attempt + 1 < loop.max_retries
            THEN [loop EXCEPT !.at = "sleeping", !.attempt = @ + 1, !.invocations = @ + 1,
                              !.failures = @ + 1, !.error = outcome, !.delay = 1]
            ELSE [loop EXCEPT !.at = "done", !.attempt = @ + 1, !.invocations = @ + 1,
                              !.failures = @ + 1, !.result = "raised",
                              !.error = "RuntimeError"]

\* a retry loop is called
RetryBegin ==
  /\ retry_loop.at \in {"none", "done"}
  /\ \E l \in RetryLoops, n \in 1..MaxRetriesInput :
       retry_loop' = [NoRetryLoop EXCEPT !.at = "calling", !.loop = l, !.max_retries = n]
  /\ RetryPipelineUnchanged

\* the loop awaits the operation
RetryInvoke ==
  /\ retry_loop.at = "calling"
  /\ retry_loop.invocations <= MaxRetriesInput
  /\ \E outcome \in InvocationOutcomes :
       retry_loop' = IF retry_loop.loop = "retry_operation"
                     THEN retry_operation(retry_loop, outcome)
                     ELSE retry_with_backoff(retry_loop, outcome)
  /\ RetryPipelineUnchanged

\* asyncio.sleep returns: the for loop takes its next attempt, the while loop
\* tests its condition again
RetryWake ==
  /\ retry_loop.at = "sleeping"
  /\ retry_loop' =
       [retry_loop EXCEPT !.at = "calling",
                          !.attempt = IF retry_loop.loop = "retry_operation" THEN @ + 1 ELSE @,
                          !.delay = 0]
  /\ RetryPipelineUnchanged

NextRetryLoop ==
  \/ RetryBegin
  \/ RetryInvoke
  \/ RetryWake

InitRetryLoop ==
  /\ config = CHOOSE c \in Configs : TRUE
  /\ Constructed

SpecRetryLoop == InitRetryLoop /\ [][NextRetryLoop]_vars

\* C33: every retry loop is bounded: the operation is invoked at most
\* max_retries times, the first successful result is returned (every
\* invocation before it failed), after max_retries consecutive failures the
\* error is raised to the caller, and a loop that is still running has
\* invocations left, so that none runs forever.
C33_RetryLoopsBounded ==
  /\ retry_loop.invocations <= retry_loop.max_retries
  /\ retry_loop.at \in {"calling", "sleeping"} =>
       /\ retry_loop.invocations < retry_loop.max_retries
       /\ retry_loop.failures = retry_loop.invocations
  /\ retry_loop.result = "returned" =>
       /\ retry_loop.at = "done"
       /\ retry_loop.failures = retry_loop.invocations - 1
  /\ retry_loop.failures = retry_loop.max_retries =>
       (retry_loop.at \in {"none", "done"}
          /\ (retry_loop.at = "done" => retry_loop.result = "raised"))

\* a loop raised its error after three failed invocations
C33_Witness ==
  /\ retry_loop.at = "done"
  /\ retry_loop.result = "raised"
  /\ retry_loop.max_retries = 3
  /\ retry_loop.failures = 3
  /\ retry_loop.error \in Retryable(retry_loop.loop)

\* ------------------------------------------- story_data and rejected updates
\* C36 as stated: a rejected update_story_data call (unknown stage name, or
\* known stage with unknown phase name) leaves story_data exactly as it was
\* before the call, with no key added.
C36_RejectedUpdateLeavesStoryData ==
  [][(TrackerInUse /\ exc' = "ValueError: Invalid name") => story_data' = story_data]_vars

\* ------------------------------------------------ the cursor during a run
\* lexicographic order of two cursors
LexLeq(a, b) == a[1] < b[1] \/ (a[1] = b[1] /\ a[2] <= b[2])

\* the coordinator invokes execute_phase: run_stage's loop has a phase left
\* and the step leaves run_stage for the phase executor
InvokesExecutePhase ==
  /\ pc = "run_stage"
  /\ phase_index < Len(CurStage.phases)
  /\ pc' # "run_stage"

\* C37: in a run that began with a reset, whenever the coordinator invokes
\* execute_phase for phase p of stage s the cursor equals (index of s, index
\* of p), and the cursor never moves backwards (lexicographically) during
\* the run.
C37_CursorAtExecutePhase ==
  [][/\ InvokesExecutePhase => Cursor = <<stage_index, phase_index>>
     /\ pc # "batch_idle" => LexLeq(Cursor, Cursor')]_vars

\* execute_phase has been invoked for the second phase of the second stage,
\* with the cursor on it
C37_Witness ==
  /\ pc = "generate"
  /\ stage_index = 1
  /\ phase_index = 1
  /\ Cursor = <<1, 1>>

\* ------------------------------------------- story_data and execution order
\* the run that last started went through every stage and no phase failed
RunWithoutFailure ==
  /\ pc \in {"batch_idle", "batch_done"}
  /\ batch_runs > 0
  /\ stage_index = Len(stages)
  /\ \A key \in PhaseKeys : "failed" \notin milestones[key]

\* C38: at every point of a run the (stage, phase) keys of story_data are a
\* prefix of the execution order: if a phase has an entry, every phase that
\* precedes it in the run has one too; and after a run in which no stage
\* failed every phase of every enabled stage has an entry.
C38_EntriesPrefixOfRunOrder ==
  batch_runs > 0 =>
    /\ \A s \in DOMAIN story_data : \A p \in DOMAIN story_data[s] : <<s, p>> \in PhaseKeys
    /\ LET order == RunOrder
       IN \A i \in 1..Len(order) :
            HasEntry(story_data, order[i][1], order[i][2]) =>
              \A j \in 1..(i - 1) : HasEntry(story_data, order[j][1], order[j][2])
    /\ RunWithoutFailure => Entries(story_data) = PhaseKeys

\* the second run went through every stage without a failure and left an
\* entry for each of the four phases
C38_Witness ==
  /\ RunWithoutFailure
  /\ batch_runs = 2
  /\ Entries(story_data) = PhaseKeys
  /\ Cardinality(PhaseKeys) = 4

\* ------------------------------------------ the ephemeral storage's lock
\* the methods of StorytellerEphemeralStorage whose body is
\* `async with self._lock`
LockingOperations ==
  {"save_content", "load_content", "clear_storage", "list_content", "get_storage_size",
   "get_storage_info", "clear_expired_content", "compress_storage", "get_storage_stats"}

EphemeralPipelineUnchanged ==
  UNCHANGED <<pipeline_vars, batch_storage, callers, writer, retry_loop>>

\* the method a coroutine is in (the innermost call)
Top(task) == task.frames[Len(task.frames)]

\* a coroutine calls a method and reaches its `async with self._lock`
EphemeralCall(t) ==
  /\ ephemeral_storage.tasks[t].frames = << >>
  /\ \E op \in LockingOperations :
       ephemeral_storage' =
         [ephemeral_storage EXCEPT !.tasks[t] = [NoTask EXCEPT !.frames = <<op>>,
                                                               !.at = "waiting"]]
  /\ EphemeralPipelineUnchanged

\* asyncio.Lock.acquire: the coroutine goes on when nobody holds the lock,
\* itself included (the lock is not reentrant)
EphemeralAcquire(t) ==
  /\ ephemeral_storage.tasks[t].at = "waiting"
  /\ ephemeral_storage.lock = 0
  /\ ephemeral_storage' = [ephemeral_storage EXCEPT !.lock = t, !.tasks[t].at = "holding"]
  /\ EphemeralPipelineUnchanged

\* the body of the with block.  get_storage_info first awaits
\* self.get_storage_size(), which reaches its own `async with self._lock`;
\* every other body ends, by return or by exception, and leaving the with
\* block releases the lock.
EphemeralBody(t) ==
  LET task == ephemeral_storage.tasks[t]
  IN /\ task.at = "holding"
     /\ IF Top(task) = "get_storage_info" /\ task.size = "none"
        THEN ephemeral_storage' =
               [ephemeral_storage EXCEPT
                  !.tasks[t].frames = Append(@, "get_storage_size"),
                  !.tasks[t].at = "waiting"]
        ELSE \E outcome \in {"returned", "raised"} :
               ephemeral_storage' =
                 IF Len(task.frames) = 1
                 THEN [ephemeral_storage EXCEPT
                         !.lock = 0,
                         !.tasks[t] = [NoTask EXCEPT !.result = outcome]]
                 ELSE [ephemeral_storage EXCEPT
                         !.lock = 0,
                         !.tasks[t].frames = SubSeq(@, 1, Len(@) - 1),
                         !.tasks[t].size = "known"]
     /\ EphemeralPipelineUnchanged

NextEphemeral ==
  \/ \E t \in 1..NumCallers : EphemeralCall(t)
  \/ \E t \in 1..NumCallers : EphemeralAcquire(t)
  \/ \E t \in 1..NumCallers : EphemeralBody(t)

InitEphemeral ==
  /\ config = CHOOSE c \in Configs : TRUE
  /\ Constructed

\* the event loop runs every coroutine that can go on, and asyncio.Lock wakes
\* its waiters first come, first served: a coroutine waiting for a lock that
\* is released again and again gets it
SpecEphemeralFair ==
  /\ InitEphemeral
  /\ [][NextEphemeral]_vars
  /\ \A t \in 1..NumCallers :
       /\ SF_vars(EphemeralAcquire(t))
       /\ WF_vars(EphemeralBody(t))

\* C39 as stated: every ephemeral-storage operation that acquires the
\* storage lock eventually releases it and returns; in particular
\* get_storage_info completes when no other task holds the lock, and never
\* blocks forever on the lock it already holds.
C39_LockedOperationsReturn ==
  \A t \in 1..NumCallers :
    (ephemeral_storage.lock = t) ~> (ephemeral_storage.tasks[t].frames = << >>)

\* ------------------------------------------------------- the stage executor
StageExecutorFrame ==
  UNCHANGED <<config, storage_vars, plugin_call, lookup, current_schema, gather, batch_runs,
              current_stage_index, current_phase_index>>

\* StageExecutor.validate_plugin
validate_plugin(plugin_name) == plugin_name \in config.loaded_plugins

\* StageExecutor.execute_phase, its except clause: StorytellerStorageError
\* and the adapter's RuntimeError are not in its list
StageExecutorCatch(e) ==
  IF e \in {"ContentProcessingError", "PluginError", "PluginLoadError", "ValueError",
            "TypeError"}
  THEN "RuntimeError" ELSE e

\* an execute_phase that raises the content-processing error when
\* process_content returned success = False
StageExecutorChecksSuccess(outcome) == outcome = "success"

\* StageExecutor.execute_phase, `processed_content, _ = await
\* process_content(content_packet)`: the success flag is dropped, and the
\* packet is persisted whenever process_content returned
StageExecutorPersists(outcome) == outcome \in {"success", "returned_false"}

\* a holder of the stage executor calls execute_stage(stage)
ExecuteStageCall ==
  /\ pc = "batch_idle"
  /\ \E si \in 0..(Len(stages) - 1) : stage_index' = si
  /\ phase_index' = 0
  /\ pc' = "run_stage"
  /\ exc' = "none"
  /\ StageExecutorFrame
  /\ UNCHANGED <<story_data, prompt, content_packet, retry_count, cp_outcome, ephemeral,
                 batch, llm_calls, validations, fault, milestones>>

\* StageExecutor.execute_phase up to the generation call: the plugin name is
\* validated (ValueError, raised before the try block), the prompt is
\* prepared and saved to ephemeral storage
StageExecutorBegin ==
  /\ pc = "run_stage"
  /\ phase_index < Len(CurStage.phases)
  /\ IF ~validate_plugin(CurPhase.plugin)
     THEN /\ pc' = "crashed"
          /\ exc' = "ValueError"
          /\ UNCHANGED <<prompt, content_packet, retry_count, cp_outcome, llm_calls,
                         validations, ephemeral, fault>>
     ELSE /\ prompt' = prepare_prompt(story_data, CurStage, CurPhase)
          /\ content_packet' = NoPacket
          /\ retry_count' = 0
          /\ cp_outcome' = "none"
          /\ llm_calls' = << >>
          /\ validations' = << >>
          /\ \E save_ok \in BOOLEAN :
               IF save_ok
               THEN /\ ephemeral' = save_content(ephemeral, CurStage.name, CurPhase.name,
                                                 "prompt", prompt')
                    /\ pc' = "generate"
                    /\ exc' = "none"
                    /\ fault' = "none"
               ELSE /\ pc' = "crashed"
                    /\ exc' = StageExecutorCatch("StorageError")
                    /\ fault' = "storage"
                    /\ UNCHANGED ephemeral
  /\ StageExecutorFrame
  /\ UNCHANGED <<stage_index, phase_index, story_data, batch, milestones>>

\* StageExecutor.execute_phase, the generation call: the temperature is the
\* one of the phase the tracker's cursor is on, and the adapter's schema is
\* left as it is
StageExecutorGenerate ==
  /\ pc = "generate"
  /\ \E o \in LLMOutcomes :
       /\ LogCall("generate", prompt,
                  Some(get_phase_temperature(current_stage_index, current_phase_index,
                                             config.default_temperature)), o)
       /\ IF o = "error"
          THEN /\ pc' = "crashed"
               /\ exc' = StageExecutorCatch("RuntimeError")
               /\ fault' = "llm"
               /\ UNCHANGED <<content_packet, milestones>>
          ELSE /\ content_packet' = create_content_packet(Raw(o), CurStage.name,
                                      CurPhase.name, CurPhase.plugin, "response", prompt)
               /\ Reach(CurKey, "generated")
               /\ pc' = "process"
               /\ UNCHANGED <<exc, fault>>
  /\ StageExecutorFrame
  /\ UNCHANGED <<stage_index, phase_index, story_data, prompt, retry_count, cp_outcome,
                 ephemeral, batch, validations>>

\* StageExecutor.execute_phase after process_content returned: the packet is
\* saved to ephemeral storage, then to batch storage (a storage error is
\* logged and raised again), then recorded in story_data
StageExecutorPersist ==
  /\ pc = "processed"
  /\ StageExecutorPersists(cp_outcome)
  /\ \E failing \in {"none", "ephemeral", "batch"} :
       LET updated == update_story_data(story_data, CurStage.name, CurPhase.name,
                                        content_packet)
       IN /\ ephemeral' = IF failing = "ephemeral" THEN ephemeral
                          ELSE AfterSave(ephemeral, content_packet, content_packet.content)
          /\ batch' = IF failing = "none"
                      THEN AfterSave(batch, content_packet, content_packet.content)
                      ELSE batch
          /\ story_data' = RecordAfterSaves(failing, story_data, updated.story_data)
          /\ IF failing = "none"
             THEN /\ milestones' = [milestones EXCEPT ![CurKey] = @ \cup {"persisted"}]
                  /\ pc' = IF updated.ok THEN "phase_done" ELSE "crashed"
                  /\ exc' = IF updated.ok THEN "none" ELSE StageExecutorCatch("ValueError")
                  /\ UNCHANGED fault
             ELSE /\ pc' = "crashed"
                  /\ exc' = StageExecutorCatch("StorageError")
                  /\ fault' = "storage"
                  /\ UNCHANGED milestones
  /\ StageExecutorFrame
  /\ UNCHANGED <<stage_index, phase_index, prompt, content_packet, retry_count, cp_outcome,
                 llm_calls, validations>>

\* process_content raised: the exception leaves execute_phase through its
\* except clause, and execute_stage
StageExecutorRaise ==
  /\ pc = "processed"
  /\ ~StageExecutorPersists(cp_outcome)
  /\ pc' = "crashed"
  /\ exc' = StageExecutorCatch(IF cp_outcome = "returned_false"
                               THEN "ContentProcessingError" ELSE cp_outcome)
  /\ milestones' = [milestones EXCEPT ![CurKey] = @ \cup {"failed"}]
  /\ StageExecutorFrame
  /\ UNCHANGED <<stage_index, phase_index, story_data, prompt, content_packet, retry_count,
                 cp_outcome, ephemeral, batch, llm_calls, validations, fault>>

\* StageExecutor.execute_stage: the next phase of the loop, or the return
ExecuteStageAdvance ==
  /\ pc = "phase_done"
  /\ phase_index' = phase_index + 1
  /\ pc' = IF phase_index + 1 < Len(CurStage.phases) THEN "run_stage" ELSE "batch_idle"
  /\ StageExecutorFrame
  /\ UNCHANGED <<stage_index, story_data, prompt, content_packet, retry_count, cp_outcome,
                 exc, ephemeral, batch, llm_calls, validations, fault, milestones>>

\* execute_stage called on a stage executor whose content processor was
\* constructed with the repair-only strategy
NextStageExecutor ==
  \/ ExecuteStageCall
  \/ StageExecutorBegin
  \/ StageExecutorGenerate
  \/ ProcessContentRepairOnly
  \/ RepairOnlyAttemptRepair
  \/ StageExecutorPersist
  \/ StageExecutorRaise
  \/ ExecuteStageAdvance

\* the repair-only strategy reads neither the repair and retry flags nor
\* max_retries, and the stage executor never reads pass_schema: one setting
\* of them goes with each default schema of the json plugin
StageExecutorConfigs ==
  {d \in Configs : /\ d.plugin_configs["json"].repair
                   /\ d.plugin_configs["json"].retry
                   /\ d.plugin_configs["text"].default_schema = None
                   /\ d.max_retries = MaxRetriesBound
                   /\ d.pass_schema}

InitStageExecutor ==
  /\ config \in StageExecutorConfigs
  /\ Constructed

SpecStageExecutor == InitStageExecutor /\ [][NextStageExecutor]_vars

\* C40 as stated: StageExecutor.execute_phase persists the processed packet
\* and records its story_data entry only when the content processor reported
\* success for that packet; when process_content returns success = false (as
\* the repair-only strategy does) the phase fails and nothing is recorded,
\* exactly as StorytellerPhaseExecutor.execute_phase behaves.
C40_StageExecutorRecordsOnlySuccess ==
  [][/\ (pc = "processed" /\ (story_data' # story_data \/ batch' # batch)) =>
          cp_outcome = "success"
     /\ (pc = "processed" /\ cp_outcome = "returned_false") =>
          /\ pc' # "phase_done"
          /\ story_data' = story_data
          /\ batch' = batch
          /\ ephemeral' = ephemeral]_vars

====
